---- MODULE Spec2Model ----
(***************************************************************************)
(* A model of the MockHsm emulator: the adapter's send_message             *)
(* (src/src/mockhsm/adapter.rs) and the command handlers                   *)
(* (src/src/mockhsm/command.rs) acting on the shared State.                *)
(*                                                                         *)
(* State, Session, SecureChannel and Objects live in files that are not    *)
(* part of src/; their operators below follow spec.md (sections 3, 4.2,    *)
(* 4.3) and the way command.rs calls them.                                 *)
(*                                                                         *)
(* Cryptography is symbolic: a ciphertext is a record of the key, the      *)
(* nonce or counter and the plaintext, and only the same key and nonce     *)
(* open it; a MAC tag is a record of the key, the chain position and the   *)
(* data, and two tags are equal only when all three are.                   *)
(***************************************************************************)
EXTENDS Integers, Sequences, FiniteSets, TLC

VARIABLES
    objects,                \* State.objects: the object store, in insertion order
    sessions,               \* State.sessions: session id -> session
    command_audit_options,  \* State.command_audit_options: command code -> option
    force_audit,            \* State.force_audit
    fips,                   \* State.fips
    poisoned,               \* the Mutex<State> is poisoned: a request panicked under the lock
    lock,                   \* the handle that holds the Mutex<State>, or NoHandle
    handles,                \* per adapter handle: where its send_message call stands
    rng,                    \* number of card challenges drawn from the CSPRNG so far
    last,                   \* the last completed request and what send_message returned
    kept,                   \* one session message accepted earlier, whichever the host kept
    trip                    \* progress of an export / delete / import round trip

vars == <<objects, sessions, command_audit_options, force_audit, fips,
          poisoned, lock, handles, rng, last, kept, trip>>

(***************************************************************************)
(* Bounds of the model                                                     *)
(***************************************************************************)
MaxSessions == 1
MaxChallenges == 2
MaxCounter == 2

\* The reset specification: open sessions, card challenges, messages per session
MaxResetSessions == 2
MaxResetChallenges == 3
MaxResetCounter == 2

\* The store specification: messages per session
MaxStoreCounter == 4

\* The wrap specification: messages per device
MaxWrapCounter == 5

\* The HMAC specification: messages per device
MaxHmacCounter == 3

\* The concurrency specification: card challenges, messages per device
MaxConcChallenges == 1
MaxConcCounter == 2

\* The authentication specification: open sessions, card challenges, messages per device
MaxAuthSessions == 2
MaxAuthChallenges == 2
MaxAuthCounter == 2

\* The counter specification: messages per device from a new session, and how far
\* below the counter's limit a long-lived session starts
MaxLowCounter == 2
MaxHighSteps == 2

\* The fault specification: open sessions, card challenges, messages per device
MaxFaultSessions == 2
MaxFaultChallenges == 2
MaxFaultCounter == 2

\* The lock specification: messages per device
MaxLockCounter == 3

\* The close specification: sessions, challenges, messages per device
MaxCloseSessions == 2
MaxCloseChallenges == 3
MaxCloseCounter == 3

\* The listing specification: messages per device
MaxListCounter == 3

\* The key-store specification: messages per device
MaxKeysCounter == 3

\* The secrecy specification: messages per device
MaxSecretCounter == 3

\* The wrap-failure specification: messages per device
MaxUnwrapCounter == 3

\* The signing and decryption specification: messages per device
MaxCryptoCounter == 2

\* The audit specification: messages per device
MaxAuditCounter == 3

\* The outer-frame specification: open sessions, card challenges, messages per device
MaxOuterSessions == 2
MaxOuterChallenges == 3
MaxOuterCounter == 2

\* The query specification: open sessions, card challenges, messages per device
MaxQuerySessions == 2
MaxQueryChallenges == 2
MaxQueryCounter == 2

(***************************************************************************)
(* Byte strings. Key material and blobs are symbolic: a length and an      *)
(* identity. Echo and HMAC payloads are sequences of bytes.                *)
(***************************************************************************)
Bytes(len, v) == [len |-> len, v |-> v]

NoBytes == Bytes(0, 0)

(***************************************************************************)
(* Algorithm catalog (spec.md section 3, "Payload variants")               *)
(***************************************************************************)
AsymmetricAlgs == {"Rsa2048", "Rsa3072", "Rsa4096", "EcP256", "EcP384", "EcP521", "EcK256", "Ed25519"}
HmacAlgs == {"HmacSha1", "HmacSha256", "HmacSha384", "HmacSha512"}
WrapAlgs == {"Aes128Ccm", "Aes192Ccm", "Aes256Ccm"}
AuthAlgs == {"YubicoAes"}
OpaqueAlgs == {"OpaqueData", "OpaqueX509Certificate"}

ObjectTypes == {"AsymmetricKey", "HmacKey", "WrapKey", "AuthenticationKey", "Opaque"}

\* The algorithms an object type admits.
AlgsOfType(ty) ==
    CASE ty = "AsymmetricKey" -> AsymmetricAlgs
      [] ty = "HmacKey" -> HmacAlgs
      [] ty = "WrapKey" -> WrapAlgs
      [] ty = "AuthenticationKey" -> AuthAlgs
      [] ty = "Opaque" -> OpaqueAlgs
      [] OTHER -> {}

\* Key sizes in bytes that put enforces; 0 stands for "any length".
KeyLen(alg) ==
    CASE alg = "Aes128Ccm" -> 16
      [] alg = "Aes192Ccm" -> 24
      [] alg = "Aes256Ccm" -> 32
      [] alg = "YubicoAes" -> 32
      [] alg = "Ed25519" -> 32
      [] alg = "EcP256" -> 32
      [] alg = "EcK256" -> 32
      [] alg = "EcP384" -> 48
      [] alg = "EcP521" -> 66
      [] alg = "Rsa2048" -> 256
      [] alg = "Rsa3072" -> 384
      [] alg = "Rsa4096" -> 512
      [] OTHER -> 0

\* The payload variant that holds key material of an algorithm.
VariantOf(alg) ==
    CASE alg \in {"Rsa2048", "Rsa3072", "Rsa4096"} -> "RsaKey"
      [] alg = "EcP256" -> "EcdsaNistP256"
      [] alg = "EcP384" -> "EcdsaNistP384"
      [] alg = "EcP521" -> "EcdsaNistP521"
      [] alg = "EcK256" -> "EcdsaSecp256k1"
      [] alg = "Ed25519" -> "Ed25519Key"
      [] alg \in HmacAlgs -> "HmacKey"
      [] alg \in WrapAlgs -> "WrapKey"
      [] alg \in AuthAlgs -> "AuthenticationKey"
      [] OTHER -> "Opaque"

\* Payload: the variant, the algorithm tag the variant carries, the key bytes.
Payload_new(alg, bytes) == [variant |-> VariantOf(alg), alg |-> alg, bytes |-> bytes]

\* Payload::to_bytes: the key material alone, without variant or tag.
Payload_to_bytes(payload) == payload.bytes

\* Whether raw bytes are acceptable key material for the algorithm.
Payload_valid(alg, bytes) == KeyLen(alg) = 0 \/ bytes.len = KeyLen(alg)

(***************************************************************************)
(* Objects: the store (spec.md section 4.3)                                *)
(***************************************************************************)
Capability_default == {}

\* Capability::all and Domain::all, over the capabilities and domains in use here
Capability_all == {"SignEddsa", "SignHmac", "VerifyHmac", "ExportWrapped", "ImportWrapped"}

Domain_all == {1, 2}

Info(id, ty, alg, label, caps, delegated, domains, origin) ==
    [object_id |-> id, object_type |-> ty, algorithm |-> alg, label |-> label,
     capabilities |-> caps, delegated_capabilities |-> delegated,
     domains |-> domains, origin |-> origin]

Object(info, payload) == [object_info |-> info, payload |-> payload]

Handle(obj) == <<obj.object_info.object_id, obj.object_info.object_type>>

Objects_index(objs, id, ty) ==
    IF \E i \in 1..Len(objs) : Handle(objs[i]) = <<id, ty>>
    THEN CHOOSE i \in 1..Len(objs) : Handle(objs[i]) = <<id, ty>>
    ELSE 0

Objects_has(objs, id, ty) == Objects_index(objs, id, ty) # 0

Objects_get(objs, id, ty) == objs[Objects_index(objs, id, ty)]

\* insert: a new handle goes to the end, an existing one is overwritten in place
Objects_insert(objs, obj) ==
    LET i == Objects_index(objs, Handle(obj)[1], Handle(obj)[2])
    IN IF i = 0 THEN Append(objs, obj) ELSE [objs EXCEPT ![i] = obj]

Objects_remove(objs, id, ty) ==
    LET Keep(o) == Handle(o) # <<id, ty>>
    IN SelectSeq(objs, Keep)

\* The built-in authentication key: id 1, derived from the default password.
DEFAULT_AUTHENTICATION_KEY_ID == 1

DefaultAuthKey ==
    Object(Info(DEFAULT_AUTHENTICATION_KEY_ID, "AuthenticationKey", "YubicoAes", "default",
                Capability_all, Capability_all, Domain_all, "Imported"),
           Payload_new("YubicoAes", Bytes(32, 0)))

Objects_default == <<DefaultAuthKey>>

\* put: deserialize raw key material into the payload variant of the algorithm,
\* enforcing the key size. command.rs ignores what put returns and has no error
\* path after it (lines 503-514), so a refusal can only be a panic.
Objects_put(objs, id, ty, alg, label, caps, delegated, domains, data) ==
    IF alg \in AlgsOfType(ty) /\ Payload_valid(alg, data)
    THEN [ok |-> TRUE,
          objects |-> Objects_insert(objs,
              Object(Info(id, ty, alg, label, caps, delegated, domains, "Imported"),
                     Payload_new(alg, data)))]
    ELSE [ok |-> FALSE, objects |-> objs]

\* generate: fresh key material (identity `seed`, drawn by the CSPRNG) for the algorithm
Objects_generate(objs, id, ty, alg, label, caps, delegated, domains, seed) ==
    IF alg \in AlgsOfType(ty)
    THEN [ok |-> TRUE,
          objects |-> Objects_insert(objs,
              Object(Info(id, ty, alg, label, caps, delegated, domains, "Generated"),
                     Payload_new(alg, Bytes(IF KeyLen(alg) = 0 THEN 32 ELSE KeyLen(alg), seed))))]
    ELSE [ok |-> FALSE, objects |-> objs]

\* AES-CCM under a wrap key: only the same key and nonce open an intact ciphertext
AesCcm_encrypt(key, nonce, plaintext) ==
    [key |-> key, nonce |-> nonce, plaintext |-> plaintext, intact |-> TRUE]

AesCcm_opens(key, nonce, ciphertext) ==
    ciphertext.intact /\ ciphertext.key = key /\ ciphertext.nonce = nonce

\* The serialized form of an object under wrap: info header, then payload bytes
Wrapped_serialize(obj) == [info |-> obj.object_info, bytes |-> Payload_to_bytes(obj.payload)]

NoCiphertext == [key |-> NoBytes, nonce |-> 0, plaintext |-> [info |-> "none", bytes |-> NoBytes], intact |-> FALSE]

\* wrap_obj that takes as the wrap key whatever object has the wrap key id
Objects_wrap_obj_any_type(objs, wrap_key_id, obj_id, obj_type, nonce) ==
    IF /\ \E ty \in ObjectTypes : Objects_has(objs, wrap_key_id, ty)
       /\ Objects_has(objs, obj_id, obj_type)
    THEN LET ty == CHOOSE t \in ObjectTypes : Objects_has(objs, wrap_key_id, t)
         IN [ok |-> TRUE,
             ciphertext |-> AesCcm_encrypt(Objects_get(objs, wrap_key_id, ty).payload.bytes, nonce,
                                           Wrapped_serialize(Objects_get(objs, obj_id, obj_type)))]
    ELSE [ok |-> FALSE, ciphertext |-> NoCiphertext]

\* wrap_obj: fails if the wrap key is missing or not a WrapKey, lacks the export
\* capability, or the target object is missing
Objects_wrap_obj(objs, wrap_key_id, obj_id, obj_type, nonce) ==
    IF /\ Objects_has(objs, wrap_key_id, "WrapKey")
       /\ "ExportWrapped" \in Objects_get(objs, wrap_key_id, "WrapKey").object_info.capabilities
       /\ Objects_has(objs, obj_id, obj_type)
    THEN [ok |-> TRUE,
          ciphertext |-> AesCcm_encrypt(Objects_get(objs, wrap_key_id, "WrapKey").payload.bytes, nonce,
                                        Wrapped_serialize(Objects_get(objs, obj_id, obj_type)))]
    ELSE [ok |-> FALSE, ciphertext |-> NoCiphertext]

\* unwrap_obj that inserts the object with the origin its header has
Objects_unwrap_obj_origin_kept(objs, wrap_key_id, nonce, ciphertext) ==
    IF /\ Objects_has(objs, wrap_key_id, "WrapKey")
       /\ AesCcm_opens(Objects_get(objs, wrap_key_id, "WrapKey").payload.bytes, nonce, ciphertext)
    THEN LET info == ciphertext.plaintext.info
             obj == Object(info, Payload_new(info.algorithm, ciphertext.plaintext.bytes))
         IN [ok |-> TRUE, objects |-> Objects_insert(objs, obj), info |-> info]
    ELSE [ok |-> FALSE, objects |-> objs, info |-> DefaultAuthKey.object_info]

\* unwrap_obj: decrypt, decode the info header, rebuild the payload by algorithm,
\* insert with origin Wrapped
Objects_unwrap_obj(objs, wrap_key_id, nonce, ciphertext) ==
    IF /\ Objects_has(objs, wrap_key_id, "WrapKey")
       /\ AesCcm_opens(Objects_get(objs, wrap_key_id, "WrapKey").payload.bytes, nonce, ciphertext)
    THEN LET info == [ciphertext.plaintext.info EXCEPT !.origin = "Wrapped"]
             obj == Object(info, Payload_new(info.algorithm, ciphertext.plaintext.bytes))
         IN [ok |-> TRUE, objects |-> Objects_insert(objs, obj), info |-> info]
    ELSE [ok |-> FALSE, objects |-> objs, info |-> DefaultAuthKey.object_info]

(***************************************************************************)
(* The secure channel (spec.md section 4.2)                                *)
(***************************************************************************)
\* Session keys derived from the authentication key and the two challenges
SessionKeys(auth_payload, host_challenge, card_challenge) ==
    [base |-> auth_payload.bytes, hc |-> host_challenge, cc |-> card_challenge]

ZeroKeys == [base |-> NoBytes, hc |-> 0, cc |-> 0]

S_ENC(keys) == [kind |-> "S-ENC", keys |-> keys]
S_MAC(keys) == [kind |-> "S-MAC", keys |-> keys]
S_RMAC(keys) == [kind |-> "S-RMAC", keys |-> keys]

\* The chain before any MAC: 16 zero bytes
InitialChain == [n |-> 0]

\* The command counter has 31 bits
COUNTER_MAX == 2147483647

\* CMAC over chain || data. The previous chaining value enters through its
\* position in the chain: along the chain of one key the position fixes the value.
\* A session sends fewer than COUNTER_MAX messages, and positions are told apart
\* within that range.
Cmac(key, chain, data) == [key |-> key, n |-> (chain.n % COUNTER_MAX) + 1, data |-> data]

\* The chaining value a tag leaves behind
ChainOf(tag) == [n |-> tag.n]

NoMac == [key |-> [kind |-> "none", keys |-> ZeroKeys], n |-> 0, data |-> <<>>]

Cryptogram(keys, constant) == [key |-> S_MAC(keys), constant |-> constant]

\* AES-CBC under S-ENC with the ICV made from the counter
Cbc_encrypt(key, counter, plaintext) ==
    [key |-> key, icv |-> counter, plaintext |-> plaintext, intact |-> TRUE]

Cbc_opens(key, counter, ciphertext) ==
    ciphertext.intact /\ ciphertext.key = key /\ ciphertext.icv = counter

\* command::Message and response::Message
Message(command_type, session_id, data, mac) ==
    [command_type |-> command_type, session_id |-> session_id, data |-> data, mac |-> mac]

NoSession == -1

Response(code, data) == [code |-> code, data |-> data]

ErrorResponse(kind) == Response("Error", [shape |-> "error", kind |-> kind])

\* A new session: counter 1, zero chain, not yet authenticated
Session_new(id, authentication_key_id, auth_payload, host_challenge, card_challenge) ==
    [id |-> id, authentication_key_id |-> authentication_key_id,
     host_challenge |-> host_challenge, card_challenge |-> card_challenge,
     keys |-> SessionKeys(auth_payload, host_challenge, card_challenge),
     counter |-> 1, mac_chaining_value |-> InitialChain, security_level |-> "None"]

Session_card_cryptogram(sess) == Cryptogram(sess.keys, 0)

Session_terminate(sess) == [sess EXCEPT !.security_level = "Terminated", !.keys = ZeroKeys]

\* What the MAC of a command covers: the outer header, the session id, the body
MacData(msg) == <<msg.command_type, msg.session_id, msg.data>>

\* verify_authenticate_session: host cryptogram and MAC must both verify
Session_verify_authenticate_session(sess, command) ==
    LET mac == Cmac(S_MAC(sess.keys), sess.mac_chaining_value, MacData(command))
    IN IF /\ sess.security_level = "None"
          /\ command.data = [shape |-> "AuthSession", host_cryptogram |-> Cryptogram(sess.keys, 1)]
          /\ command.mac = mac
       THEN [ok |-> TRUE,
             session |-> [sess EXCEPT !.security_level = "Authenticated", !.mac_chaining_value = ChainOf(mac)],
             response |-> Message("AuthSession", sess.id, [shape |-> "empty"], NoMac)]
       ELSE [ok |-> FALSE, session |-> Session_terminate(sess),
             response |-> Message("AuthSession", sess.id, [shape |-> "empty"], NoMac)]

NoCommand == Message("Unknown", NoSession, [shape |-> "none"], NoMac)

\* decrypt_command that decrypts without verifying MAC, chain or counter
Session_decrypt_command_unverified(sess, msg) ==
    [ok |-> sess.security_level = "Authenticated",
     session |-> [sess EXCEPT !.counter = @ + 1],
     command |-> Message(msg.data.plaintext.code, sess.id, msg.data.plaintext.data, NoMac)]

\* decrypt_command: verify the MAC against the chain, decrypt under the counter's
\* ICV, advance counter and chain. Any failure terminates the session, and so does
\* a counter that has no next value.
Session_decrypt_command(sess, msg) ==
    LET mac == Cmac(S_MAC(sess.keys), sess.mac_chaining_value, MacData(msg))
    IN IF /\ sess.security_level = "Authenticated"
          /\ sess.counter < COUNTER_MAX
          /\ msg.mac = mac
          /\ Cbc_opens(S_ENC(sess.keys), sess.counter, msg.data)
       THEN [ok |-> TRUE,
             session |-> [sess EXCEPT !.counter = @ + 1, !.mac_chaining_value = ChainOf(mac)],
             command |-> Message(msg.data.plaintext.code, sess.id, msg.data.plaintext.data, NoMac)]
       ELSE [ok |-> FALSE, session |-> Session_terminate(sess), command |-> NoCommand]

\* encrypt_response: same scheme, S-RMAC as the MAC key, the updated chain
Session_encrypt_response(sess, response) ==
    LET body == Cbc_encrypt(S_ENC(sess.keys), sess.counter - 1, response)
        msg == Message("SessionMessage", sess.id, body, NoMac)
    IN [msg EXCEPT !.mac = Cmac(S_RMAC(sess.keys), sess.mac_chaining_value, MacData(msg))]

(***************************************************************************)
(* State (the value under the Mutex) and what a handler hands back         *)
(***************************************************************************)
State ==
    [objects |-> objects, sessions |-> sessions,
     command_audit_options |-> command_audit_options,
     force_audit |-> force_audit, fips |-> fips]

\* State::get_session fails on a session id that is not in the table
State_has_session(st, session_id) == session_id \in DOMAIN st.sessions

\* State::create_session: look up the authentication key, allocate a free id
State_free_id(st) == CHOOSE id \in 0..Cardinality(DOMAIN st.sessions) : id \notin DOMAIN st.sessions /\
                        \A j \in 0..(id - 1) : j \in DOMAIN st.sessions

State_create_session(st, authentication_key_id, host_challenge, card_challenge) ==
    IF Objects_has(st.objects, authentication_key_id, "AuthenticationKey")
    THEN LET id == State_free_id(st)
             key == Objects_get(st.objects, authentication_key_id, "AuthenticationKey")
             sess == Session_new(id, authentication_key_id, key.payload, host_challenge, card_challenge)
         IN [ok |-> TRUE, id |-> id,
             st |-> [st EXCEPT !.sessions = [i \in DOMAIN st.sessions \cup {id} |->
                                              IF i = id THEN sess ELSE st.sessions[i]]]]
    ELSE [ok |-> FALSE, id |-> NoSession, st |-> st]

\* State::close_session: remove the session from the table
State_close_session(st, session_id) ==
    [st EXCEPT !.sessions = [i \in DOMAIN st.sessions \ {session_id} |-> st.sessions[i]]]

EmptyMap == [i \in {} |-> 0]

\* State::reset: drop all objects and sessions, recreate the default key
State_reset(st) == [st EXCEPT !.sessions = EmptyMap, !.objects = Objects_default]

\* A handler's outcome: the state it leaves, its response::Message, whether it panicked
Handled(st, response) == [st |-> st, response |-> response, panic |-> FALSE]

Panicked(st) == [st |-> st, response |-> ErrorResponse("none"), panic |-> TRUE]

\* serialization::deserialize of a command body into the typed request
Deserializes(cmd_data, shape) == cmd_data.shape = shape

(***************************************************************************)
(* Handlers of command.rs                                                  *)
(***************************************************************************)
\* delete_object that removes every object with the id, whatever its type
delete_object_every_type(st, cmd_data) ==
    IF ~Deserializes(cmd_data, "DeleteObject") THEN Panicked(st)
    ELSE IF Objects_has(st.objects, cmd_data.object_id, cmd_data.object_type)
         THEN LET Keep(o) == o.object_info.object_id # cmd_data.object_id
              IN Handled([st EXCEPT !.objects = SelectSeq(@, Keep)],
                         Response("DeleteObject", [shape |-> "empty"]))
         ELSE Handled(st, ErrorResponse("ObjectNotFound"))

\* delete_object that unwraps what remove returns
delete_object_unwrap(st, cmd_data) ==
    IF ~Deserializes(cmd_data, "DeleteObject") THEN Panicked(st)
    ELSE IF Objects_has(st.objects, cmd_data.object_id, cmd_data.object_type)
         THEN Handled([st EXCEPT !.objects = Objects_remove(@, cmd_data.object_id, cmd_data.object_type)],
                      Response("DeleteObject", [shape |-> "empty"]))
         ELSE Panicked(st)

\* delete_object that answers for a missing object as for one it removed
delete_object_always_ok(st, cmd_data) ==
    IF ~Deserializes(cmd_data, "DeleteObject") THEN Panicked(st)
    ELSE Handled([st EXCEPT !.objects = Objects_remove(@, cmd_data.object_id, cmd_data.object_type)],
                 Response("DeleteObject", [shape |-> "empty"]))

delete_object(st, cmd_data) ==
    IF ~Deserializes(cmd_data, "DeleteObject") THEN Panicked(st)
    ELSE IF Objects_has(st.objects, cmd_data.object_id, cmd_data.object_type)
         THEN Handled([st EXCEPT !.objects = Objects_remove(@, cmd_data.object_id, cmd_data.object_type)],
                      Response("DeleteObject", [shape |-> "empty"]))
         ELSE Handled(st, ErrorResponse("ObjectNotFound"))

\* echo that answers with an empty message
echo_empty(cmd_data) == Response("Echo", [cmd_data EXCEPT !.bytes = <<>>])

echo(cmd_data) == Response("Echo", cmd_data)

\* device_info, get_log_entries and get_storage_info take no state: fixed reports
device_info ==
    Response("DeviceInfo",
             [shape |-> "Info", major_version |-> 2, minor_version |-> 0, build_version |-> 0,
              log_store_capacity |-> 62, log_store_used |-> 62])

get_log_entries ==
    Response("GetLogEntries",
             [shape |-> "LogEntries", unlogged_boot_events |-> 0, unlogged_auth_events |-> 0,
              num_entries |-> 0, entries |-> <<>>])

get_storage_info ==
    Response("GetStorageInfo",
             [shape |-> "StorageInfo", total_records |-> 256, free_records |-> 256,
              total_pages |-> 1024, free_pages |-> 1024, page_size |-> 126])

\* get_pseudo_random: as many bytes from the CSPRNG as the command asks for
get_pseudo_random(st, cmd_data, rnd) ==
    IF ~Deserializes(cmd_data, "GetPseudoRandom") THEN Panicked(st)
    ELSE Handled(st, Response("GetPseudoRandom", [shape |-> "bytes", bytes |-> Bytes(cmd_data.bytes, rnd)]))

\* export_wrapped that takes the exported object out of the store
export_wrapped_moving(st, cmd_data, nonce) ==
    IF ~Deserializes(cmd_data, "ExportWrapped") THEN Panicked(st)
    ELSE LET w == Objects_wrap_obj(st.objects, cmd_data.wrap_key_id, cmd_data.object_id,
                                   cmd_data.object_type, nonce)
         IN IF w.ok
            THEN Handled([st EXCEPT !.objects = Objects_remove(@, cmd_data.object_id, cmd_data.object_type)],
                         Response("ExportWrapped",
                     [shape |-> "ExportWrappedResponse", nonce |-> nonce, ciphertext |-> w.ciphertext]))
            ELSE Handled(st, ErrorResponse("InvalidCommand"))

export_wrapped(st, cmd_data, nonce) ==
    IF ~Deserializes(cmd_data, "ExportWrapped") THEN Panicked(st)
    ELSE LET w == Objects_wrap_obj(st.objects, cmd_data.wrap_key_id, cmd_data.object_id,
                                   cmd_data.object_type, nonce)
         IN IF w.ok
            THEN Handled(st, Response("ExportWrapped",
                     [shape |-> "ExportWrappedResponse", nonce |-> nonce, ciphertext |-> w.ciphertext]))
            ELSE Handled(st, ErrorResponse("InvalidCommand"))

\* Objects::generate hands nothing back to the handler (no error path at
\* lines 278-291): a refusal is a panic inside it.
gen_asymmetric_key(st, cmd_data, seed) ==
    IF ~Deserializes(cmd_data, "GenAsymmetricKey") THEN Panicked(st)
    ELSE LET g == Objects_generate(st.objects, cmd_data.key_id, "AsymmetricKey", cmd_data.algorithm,
                                   cmd_data.label, cmd_data.capabilities, Capability_default,
                                   cmd_data.domains, seed)
         IN IF g.ok
            THEN Handled([st EXCEPT !.objects = g.objects],
                         Response("GenerateAsymmetricKey", [shape |-> "key_id", key_id |-> cmd_data.key_id]))
            ELSE Panicked(st)

gen_hmac_key(st, cmd_data, seed) ==
    IF ~Deserializes(cmd_data, "GenHmacKey") THEN Panicked(st)
    ELSE LET g == Objects_generate(st.objects, cmd_data.key_id, "HmacKey", cmd_data.algorithm,
                                   cmd_data.label, cmd_data.capabilities, Capability_default,
                                   cmd_data.domains, seed)
         IN IF g.ok
            THEN Handled([st EXCEPT !.objects = g.objects],
                         Response("GenerateHmacKey", [shape |-> "key_id", key_id |-> cmd_data.key_id]))
            ELSE Panicked(st)

\* gen_wrap_key that gives the key no delegated capabilities
gen_wrap_key_no_delegated(st, cmd_data, seed) ==
    IF ~Deserializes(cmd_data, "GenWrapKey") THEN Panicked(st)
    ELSE LET params == cmd_data.params
             g == Objects_generate(st.objects, params.key_id, "WrapKey", params.algorithm,
                                   params.label, params.capabilities,
                                   Capability_default, params.domains, seed)
         IN IF g.ok
            THEN Handled([st EXCEPT !.objects = g.objects],
                         Response("GenerateWrapKey", [shape |-> "key_id", key_id |-> params.key_id]))
            ELSE Panicked(st)

gen_wrap_key(st, cmd_data, seed) ==
    IF ~Deserializes(cmd_data, "GenWrapKey") THEN Panicked(st)
    ELSE LET params == cmd_data.params
             g == Objects_generate(st.objects, params.key_id, "WrapKey", params.algorithm,
                                   params.label, params.capabilities,
                                   cmd_data.delegated_capabilities, params.domains, seed)
         IN IF g.ok
            THEN Handled([st EXCEPT !.objects = g.objects],
                         Response("GenerateWrapKey", [shape |-> "key_id", key_id |-> params.key_id]))
            ELSE Panicked(st)

get_object_info(st, cmd_data) ==
    IF ~Deserializes(cmd_data, "GetObjectInfo") THEN Panicked(st)
    ELSE IF Objects_has(st.objects, cmd_data.object_id, cmd_data.object_type)
         THEN Handled(st, Response("GetObjectInfo",
                  [shape |-> "info",
                   info |-> Objects_get(st.objects, cmd_data.object_id, cmd_data.object_type).object_info]))
         ELSE Handled(st, ErrorResponse("ObjectNotFound"))

\* get_opaque that looks the id up under every object type
get_opaque_any_type(st, cmd_data) ==
    IF ~Deserializes(cmd_data, "GetOpaque") THEN Panicked(st)
    ELSE IF \E ty \in ObjectTypes : Objects_has(st.objects, cmd_data.object_id, ty)
         THEN LET ty == CHOOSE t \in ObjectTypes : Objects_has(st.objects, cmd_data.object_id, t)
              IN Handled(st, Response("GetOpaqueObject",
                     [shape |-> "bytes",
                      bytes |-> Payload_to_bytes(Objects_get(st.objects, cmd_data.object_id, ty).payload)]))
         ELSE Handled(st, ErrorResponse("ObjectNotFound"))

get_opaque(st, cmd_data) ==
    IF ~Deserializes(cmd_data, "GetOpaque") THEN Panicked(st)
    ELSE IF Objects_has(st.objects, cmd_data.object_id, "Opaque")
         THEN Handled(st, Response("GetOpaqueObject",
                  [shape |-> "bytes",
                   bytes |-> Payload_to_bytes(Objects_get(st.objects, cmd_data.object_id, "Opaque").payload)]))
         ELSE Handled(st, ErrorResponse("ObjectNotFound"))

\* import_wrapped that answers for the unwrapped object without keeping it
import_wrapped_not_kept(st, cmd_data) ==
    IF ~Deserializes(cmd_data, "ImportWrapped") THEN Panicked(st)
    ELSE LET u == Objects_unwrap_obj(st.objects, cmd_data.wrap_key_id, cmd_data.nonce, cmd_data.ciphertext)
         IN IF u.ok
            THEN Handled(st, Response("ImportWrapped",
                             [shape |-> "ImportWrappedResponse", object_type |-> u.info.object_type,
                              object_id |-> u.info.object_id]))
            ELSE Handled(st, ErrorResponse("InvalidCommand"))

import_wrapped(st, cmd_data) ==
    IF ~Deserializes(cmd_data, "ImportWrapped") THEN Panicked(st)
    ELSE LET u == Objects_unwrap_obj(st.objects, cmd_data.wrap_key_id, cmd_data.nonce, cmd_data.ciphertext)
         IN IF u.ok
            THEN Handled([st EXCEPT !.objects = u.objects],
                         Response("ImportWrapped",
                             [shape |-> "ImportWrappedResponse", object_type |-> u.info.object_type,
                              object_id |-> u.info.object_id]))
            ELSE Handled(st, ErrorResponse("InvalidCommand"))

\* object::Filter tags that Filter::deserialize knows
FilterTags == {"Algorithm", "Capabilities", "Domains", "Label", "Id", "Type"}

\* FilterMatches with equality where the source has contains
FilterMatches_equal(filter, info) ==
    CASE filter.tag = "Algorithm" -> info.algorithm = filter.value
      [] filter.tag = "Capabilities" -> filter.value = info.capabilities
      [] filter.tag = "Domains" -> filter.value = info.domains
      [] filter.tag = "Label" -> info.label = filter.value
      [] filter.tag = "Id" -> info.object_id = filter.value
      [] filter.tag = "Type" -> info.object_type = filter.value

FilterMatches(filter, info) ==
    CASE filter.tag = "Algorithm" -> info.algorithm = filter.value
      [] filter.tag = "Capabilities" -> filter.value \subseteq info.capabilities
      [] filter.tag = "Domains" -> filter.value \subseteq info.domains
      [] filter.tag = "Label" -> info.label = filter.value
      [] filter.tag = "Id" -> info.object_id = filter.value
      [] filter.tag = "Type" -> info.object_type = filter.value

Entry(obj) == [object_id |-> obj.object_info.object_id, object_type |-> obj.object_info.object_type]

RECURSIVE MapEntries(_)
MapEntries(objs) == IF objs = <<>> THEN <<>> ELSE <<Entry(Head(objs))>> \o MapEntries(Tail(objs))

\* list_objects over a store that hands out its objects ordered by (id, type)
HandleRank(obj) ==
    10 * obj.object_info.object_id
        + (CASE obj.object_info.object_type = "Opaque" -> 1
             [] obj.object_info.object_type = "AuthenticationKey" -> 2
             [] obj.object_info.object_type = "AsymmetricKey" -> 3
             [] obj.object_info.object_type = "WrapKey" -> 4
             [] OTHER -> 5)

list_objects_by_handle(st, cmd_data) ==
    IF ~Deserializes(cmd_data, "ListObjects") THEN Panicked(st)
    ELSE IF \E i \in 1..Len(cmd_data.filters) : cmd_data.filters[i].tag \notin FilterTags
         THEN Panicked(st)
         ELSE LET filters == cmd_data.filters
                  Matches(obj) ==
                      IF filters = <<>> THEN TRUE
                      ELSE \A i \in 1..Len(filters) : FilterMatches(filters[i], obj.object_info)
                  ByHandle(a, b) == HandleRank(a) < HandleRank(b)
              IN Handled(st, Response("ListObjects",
                     [shape |-> "entries",
                      entries |-> MapEntries(SortSeq(SelectSeq(st.objects, Matches), ByHandle))]))

list_objects(st, cmd_data) ==
    IF ~Deserializes(cmd_data, "ListObjects") THEN Panicked(st)
    ELSE IF \E i \in 1..Len(cmd_data.filters) : cmd_data.filters[i].tag \notin FilterTags
         THEN Panicked(st)
         ELSE LET filters == cmd_data.filters
                  Matches(obj) ==
                      IF filters = <<>> THEN TRUE
                      ELSE \A i \in 1..Len(filters) : FilterMatches(filters[i], obj.object_info)
              IN Handled(st, Response("ListObjects",
                     [shape |-> "entries", entries |-> MapEntries(SelectSeq(st.objects, Matches))]))

\* The typed Put* requests: params {id, label, domains, capabilities, algorithm} and data.
\* Objects::put hands nothing back to the handler: a refusal is a panic inside it.
PutInto(st, ty, params, delegated, data, code) ==
    LET p == Objects_put(st.objects, params.id, ty, params.algorithm, params.label,
                         params.capabilities, delegated, params.domains, data)
    IN IF p.ok
       THEN Handled([st EXCEPT !.objects = p.objects], Response(code, [shape |-> "key_id", key_id |-> params.id]))
       ELSE Panicked(st)

put_asymmetric_key(st, cmd_data) ==
    IF ~Deserializes(cmd_data, "PutAsymmetricKey") THEN Panicked(st)
    ELSE PutInto(st, "AsymmetricKey", cmd_data.params, Capability_default, cmd_data.data, "PutAsymmetricKey")

put_authentication_key(st, cmd_data) ==
    IF ~Deserializes(cmd_data, "PutAuthenticationKey") THEN Panicked(st)
    ELSE PutInto(st, "AuthenticationKey", cmd_data.params, cmd_data.delegated_capabilities,
                 cmd_data.data, "PutAuthenticationKey")

put_hmac_key(st, cmd_data) ==
    IF ~Deserializes(cmd_data, "PutHmacKey") THEN Panicked(st)
    ELSE PutInto(st, "HmacKey", cmd_data.params, Capability_default, cmd_data.data, "PutHmacKey")

\* put_opaque that files the object under the type of HMAC keys
put_opaque_wrong_type(st, cmd_data) ==
    IF ~Deserializes(cmd_data, "PutOpaque") THEN Panicked(st)
    ELSE PutInto(st, "HmacKey", [cmd_data.params EXCEPT !.algorithm = "HmacSha256"],
                 Capability_default, cmd_data.data, "PutOpaqueObject")

put_opaque(st, cmd_data) ==
    IF ~Deserializes(cmd_data, "PutOpaque") THEN Panicked(st)
    ELSE PutInto(st, "Opaque", cmd_data.params, Capability_default, cmd_data.data, "PutOpaqueObject")

put_wrap_key(st, cmd_data) ==
    IF ~Deserializes(cmd_data, "PutWrapKey") THEN Panicked(st)
    ELSE PutInto(st, "WrapKey", cmd_data.params, cmd_data.delegated_capabilities,
                 cmd_data.data, "PutWrapKey")

AuditOptions == {"Off", "On", "Fix"}

\* AuditOption::from_u8 knows three bytes; any other byte is an error
AuditOption_from_u8(byte) ==
    CASE byte = 0 -> "Off"
      [] byte = 1 -> "On"
      [] byte = 2 -> "Fix"
      [] OTHER -> "none"

AuditOption_to_u8(option) ==
    CASE option = "Off" -> 0
      [] option = "On" -> 1
      [] option = "Fix" -> 2

\* AuditCommands::serialize: the (code, option byte) pairs of the map
AuditCommands_serialize(options) == [c \in DOMAIN options |-> AuditOption_to_u8(options[c])]

\* AuditCommands::put: the entry of one command is replaced, the others stay
\* AuditCommands::put that forgets the entries of the other commands
AuditCommands_put_alone(options, command_type, option) ==
    [c \in {command_type} |-> option]

AuditCommands_put(options, command_type, option) ==
    [c \in DOMAIN options \cup {command_type} |-> IF c = command_type THEN option ELSE options[c]]

AuditTags == {"Force", "Command", "Fips"}

get_option(st, cmd_data) ==
    IF ~Deserializes(cmd_data, "GetOption") \/ cmd_data.tag \notin AuditTags THEN Panicked(st)
    ELSE Handled(st, Response("GetOption",
             [shape |-> "option",
              value |-> CASE cmd_data.tag = "Command" ->
                                 AuditCommands_serialize(st.command_audit_options)
                          [] cmd_data.tag = "Force" -> <<AuditOption_to_u8(st.force_audit)>>
                          [] cmd_data.tag = "Fips" -> <<AuditOption_to_u8(st.fips)>>]))

\* SetOptionCommand {tag, length, value}; the value of tag Command is (code, option)
put_option(st, cmd_data) ==
    IF ~Deserializes(cmd_data, "SetOption") \/ cmd_data.tag \notin AuditTags THEN Panicked(st)
    ELSE CASE cmd_data.tag = "Force" ->
                  IF cmd_data.length # 1 \/ cmd_data.value = <<>> THEN Panicked(st)
                  ELSE IF AuditOption_from_u8(cmd_data.value[1]) \notin AuditOptions THEN Panicked(st)
                  ELSE Handled([st EXCEPT !.force_audit = AuditOption_from_u8(cmd_data.value[1])],
                               Response("SetOption", [shape |-> "empty"]))
           [] cmd_data.tag = "Command" ->
                  IF cmd_data.length # 2 \/ Len(cmd_data.value) # 2 THEN Panicked(st)
                  ELSE IF AuditOption_from_u8(cmd_data.value[2]) \notin AuditOptions THEN Panicked(st)
                  ELSE Handled([st EXCEPT !.command_audit_options =
                                    AuditCommands_put(@, cmd_data.value[1],
                                                      AuditOption_from_u8(cmd_data.value[2]))],
                               Response("SetOption", [shape |-> "empty"]))
           [] cmd_data.tag = "Fips" ->
                  IF cmd_data.length # 1 \/ cmd_data.value = <<>> THEN Panicked(st)
                  ELSE IF AuditOption_from_u8(cmd_data.value[1]) \notin AuditOptions THEN Panicked(st)
                  ELSE Handled([st EXCEPT !.fips = AuditOption_from_u8(cmd_data.value[1])],
                               Response("SetOption", [shape |-> "empty"]))

\* HMAC-SHA256: a 32-byte tag that depends on the key and on every byte of the data
HMAC_TAG_LEN == 32

RECURSIVE SumSeq(_)
SumSeq(q) == IF q = <<>> THEN 0 ELSE Head(q) + 2 * SumSeq(Tail(q))

Hmac_Sha256(key, data) ==
    [i \in 1..HMAC_TAG_LEN |-> (key.v * 31 + SumSeq(data) * 7 + Len(data) * 3 + i) % 256]

sign_hmac(st, cmd_data) ==
    IF ~Deserializes(cmd_data, "SignHmac") THEN Panicked(st)
    ELSE IF Objects_has(st.objects, cmd_data.key_id, "HmacKey")
         THEN LET payload == Objects_get(st.objects, cmd_data.key_id, "HmacKey").payload
              IN IF payload.variant = "HmacKey"
                 THEN IF payload.alg # "HmacSha256" THEN Panicked(st)
                      ELSE Handled(st, Response("SignHmac",
                               [shape |-> "tag", tag |-> Hmac_Sha256(payload.bytes, cmd_data.data)]))
                 ELSE Handled(st, ErrorResponse("InvalidCommand"))
         ELSE Handled(st, ErrorResponse("ObjectNotFound"))

\* everything after the key id arrives in the tag field: tag (32 bytes), then data
verify_hmac(st, cmd_data) ==
    IF ~Deserializes(cmd_data, "VerifyHmac") THEN Panicked(st)
    ELSE IF Objects_has(st.objects, cmd_data.key_id, "HmacKey")
         THEN LET payload == Objects_get(st.objects, cmd_data.key_id, "HmacKey").payload
                  data == cmd_data.tag
              IN IF payload.variant = "HmacKey"
                 THEN IF payload.alg # "HmacSha256" THEN Panicked(st)
                      ELSE IF Len(data) < HMAC_TAG_LEN THEN Panicked(st)
                      ELSE LET tag == Hmac_Sha256(payload.bytes, SubSeq(data, HMAC_TAG_LEN + 1, Len(data)))
                               is_ok == IF tag = SubSeq(data, 1, HMAC_TAG_LEN) THEN 1 ELSE 0
                           IN Handled(st, Response("VerifyHmac", [shape |-> "is_ok", is_ok |-> is_ok]))
                 ELSE Handled(st, ErrorResponse("InvalidCommand"))
         ELSE Handled(st, ErrorResponse("ObjectNotFound"))

\* Payload::public_key_bytes: the public half of asymmetric key material. It is a
\* one-way image of the secret: a byte string no secret has.
AsymmetricVariants ==
    {"RsaKey", "EcdsaNistP256", "EcdsaNistP384", "EcdsaNistP521", "EcdsaSecp256k1", "Ed25519Key"}

Payload_public_key_bytes(payload) == Bytes(payload.bytes.len, 0 - payload.bytes.v)

\* A signature: checkable with the public key, over the bytes that were signed
Signature(payload, scheme, msg) ==
    [scheme |-> scheme, by |-> Payload_public_key_bytes(payload), over |-> msg]

get_public_key(st, cmd_data) ==
    IF ~Deserializes(cmd_data, "GetPublicKey") THEN Panicked(st)
    ELSE IF Objects_has(st.objects, cmd_data.key_id, "AsymmetricKey")
         THEN LET obj == Objects_get(st.objects, cmd_data.key_id, "AsymmetricKey")
              IN IF \/ obj.object_info.algorithm \notin AsymmetricAlgs
                    \/ obj.payload.variant \notin AsymmetricVariants
                 THEN Panicked(st)
                 ELSE Handled(st, Response("GetPublicKey",
                          [shape |-> "public_key", algorithm |-> obj.object_info.algorithm,
                           bytes |-> Payload_public_key_bytes(obj.payload)]))
         ELSE Handled(st, ErrorResponse("ObjectNotFound"))

\* The curves sign_ecdsa has an arm for, and the size of their field elements
EcdsaVariants == {"EcdsaNistP256", "EcdsaSecp256k1", "EcdsaNistP384", "EcdsaNistP521"}

FieldLen(variant) ==
    CASE variant = "EcdsaNistP384" -> 48
      [] variant = "EcdsaNistP521" -> 66
      [] OTHER -> 32

\* sign_prehash refuses a digest shorter than half a field element; the handler
\* expects it to succeed
sign_ecdsa(st, cmd_data) ==
    IF ~Deserializes(cmd_data, "SignEcdsa") THEN Panicked(st)
    ELSE IF Objects_has(st.objects, cmd_data.key_id, "AsymmetricKey")
         THEN LET payload == Objects_get(st.objects, cmd_data.key_id, "AsymmetricKey").payload
              IN IF payload.variant \in EcdsaVariants
                 THEN IF 2 * cmd_data.digest.len < FieldLen(payload.variant) THEN Panicked(st)
                      ELSE Handled(st, Response("SignEcdsa",
                               [shape |-> "signature",
                                signature |-> Signature(payload, "Ecdsa", cmd_data.digest)]))
                 ELSE Handled(st, ErrorResponse("InvalidCommand"))
         ELSE Handled(st, ErrorResponse("ObjectNotFound"))

sign_eddsa(st, cmd_data) ==
    IF ~Deserializes(cmd_data, "SignEddsa") THEN Panicked(st)
    ELSE IF Objects_has(st.objects, cmd_data.key_id, "AsymmetricKey")
         THEN LET payload == Objects_get(st.objects, cmd_data.key_id, "AsymmetricKey").payload
              IN IF payload.variant = "Ed25519Key"
                 THEN Handled(st, Response("SignEddsa",
                          [shape |-> "signature",
                           signature |-> Signature(payload, "Ed25519", cmd_data.data)]))
                 ELSE Handled(st, ErrorResponse("InvalidCommand"))
         ELSE Handled(st, ErrorResponse("ObjectNotFound"))

\* mgf::Algorithm and the output size of its digest
MgfAlgs == {"Sha1", "Sha256", "Sha384", "Sha512"}

DigestLen(alg) ==
    CASE alg = "Sha1" -> 20
      [] alg = "Sha256" -> 32
      [] alg = "Sha384" -> 48
      [] alg = "Sha512" -> 64

\* sign_prehash_with_rng refuses a digest whose length is not the output size of
\* the MGF1 hash; sign_pss_digest expects it to succeed
sign_pss(st, cmd_data, salt) ==
    IF ~Deserializes(cmd_data, "SignPss") THEN Panicked(st)
    ELSE IF Objects_has(st.objects, cmd_data.key_id, "AsymmetricKey")
         THEN LET payload == Objects_get(st.objects, cmd_data.key_id, "AsymmetricKey").payload
              IN IF payload.variant = "RsaKey"
                 THEN IF cmd_data.digest.len # DigestLen(cmd_data.mgf1_hash_alg) THEN Panicked(st)
                      ELSE Handled(st, Response("SignPss",
                               [shape |-> "signature",
                                signature |-> Signature(payload, <<"Pss", cmd_data.mgf1_hash_alg, salt>>,
                                                        cmd_data.digest)]))
                 ELSE Handled(st, ErrorResponse("InvalidCommand"))
         ELSE Handled(st, ErrorResponse("ObjectNotFound"))

\* sign_pkcs1v15 that signs a digest of any length
sign_pkcs1v15_any_length(st, cmd_data) ==
    IF ~Deserializes(cmd_data, "SignPkcs1") THEN Panicked(st)
    ELSE IF Objects_has(st.objects, cmd_data.key_id, "AsymmetricKey")
         THEN LET payload == Objects_get(st.objects, cmd_data.key_id, "AsymmetricKey").payload
              IN IF payload.variant = "RsaKey"
                 THEN Handled(st, Response("SignPkcs1",
                          [shape |-> "signature",
                           signature |-> Signature(payload, <<"Pkcs1v15", cmd_data.digest.len>>,
                                                   cmd_data.digest)]))
                 ELSE Handled(st, ErrorResponse("InvalidCommand"))
         ELSE Handled(st, ErrorResponse("ObjectNotFound"))

\* the digest length selects the hash; a length of no hash is InvalidCommand
sign_pkcs1v15(st, cmd_data) ==
    IF ~Deserializes(cmd_data, "SignPkcs1") THEN Panicked(st)
    ELSE IF Objects_has(st.objects, cmd_data.key_id, "AsymmetricKey")
         THEN LET payload == Objects_get(st.objects, cmd_data.key_id, "AsymmetricKey").payload
              IN IF payload.variant = "RsaKey"
                 THEN IF \E h \in MgfAlgs : cmd_data.digest.len = DigestLen(h)
                      THEN Handled(st, Response("SignPkcs1",
                               [shape |-> "signature",
                                signature |-> Signature(payload, <<"Pkcs1v15", cmd_data.digest.len>>,
                                                        cmd_data.digest)]))
                      ELSE Handled(st, ErrorResponse("InvalidCommand"))
                 ELSE Handled(st, ErrorResponse("InvalidCommand"))
         ELSE Handled(st, ErrorResponse("ObjectNotFound"))

\* RSA-OAEP: a ciphertext made for a public key with a label hash and an MGF1 hash
\* opens only under that key's private half, with the same label hash and hash
Oaep_encrypt(public_key, mgf1_hash_alg, label_hash, plaintext) ==
    [to |-> public_key, mgf1_hash_alg |-> mgf1_hash_alg, label_hash |-> label_hash,
     plaintext |-> plaintext, intact |-> TRUE]

Oaep_opens(payload, mgf1_hash_alg, label_hash, data) ==
    /\ data.intact
    /\ data.to = Payload_public_key_bytes(payload)
    /\ data.mgf1_hash_alg = mgf1_hash_alg
    /\ data.label_hash = label_hash

\* label_hash.try_into().unwrap(): a label hash that is not of the digest's size
\* is a panic; a failed decryption is InvalidData
decrypt_oaep(st, cmd_data) ==
    IF ~Deserializes(cmd_data, "DecryptOaep") THEN Panicked(st)
    ELSE IF Objects_has(st.objects, cmd_data.key_id, "AsymmetricKey")
         THEN LET payload == Objects_get(st.objects, cmd_data.key_id, "AsymmetricKey").payload
              IN IF payload.variant = "RsaKey"
                 THEN IF cmd_data.label_hash.len # DigestLen(cmd_data.mgf1_hash_alg) THEN Panicked(st)
                      ELSE IF Oaep_opens(payload, cmd_data.mgf1_hash_alg, cmd_data.label_hash, cmd_data.data)
                      THEN Handled(st, Response("DecryptOaep",
                               [shape |-> "bytes", bytes |-> cmd_data.data.plaintext]))
                      ELSE Handled(st, ErrorResponse("InvalidData"))
                 ELSE Handled(st, ErrorResponse("InvalidCommand"))
         ELSE Handled(st, ErrorResponse("ObjectNotFound"))

\* The payload variants sign_attestation_certificate has an arm for, as the target
\* key and as the attestation key
AttestableVariants == {"RsaKey", "EcdsaNistP256", "EcdsaNistP384", "EcdsaNistP521"}

\* The certificate: subject and extensions from the target's info, the target's
\* public key, a random serial number, signed with the attestation key
sign_attestation_certificate(st, cmd_data, serial) ==
    IF ~Deserializes(cmd_data, "SignAttestationCertificate") THEN Panicked(st)
    ELSE IF Objects_has(st.objects, cmd_data.key_id, "AsymmetricKey")
         THEN LET target == Objects_get(st.objects, cmd_data.key_id, "AsymmetricKey")
              IN IF target.payload.variant \notin AttestableVariants THEN Panicked(st)
                 ELSE IF ~Objects_has(st.objects, cmd_data.attestation_key_id, "AsymmetricKey")
                      THEN Panicked(st)
                 ELSE LET signer == Objects_get(st.objects, cmd_data.attestation_key_id, "AsymmetricKey").payload
                      IN IF signer.variant \notin AttestableVariants THEN Panicked(st)
                         ELSE Handled(st, Response("SignAttestationCertificate",
                                  [shape |-> "certificate", target |-> target.object_info,
                                   public_key |-> Payload_public_key_bytes(target.payload),
                                   serial_number |-> serial,
                                   signature |-> Signature(signer, "certificate", cmd_data.key_id)]))
         ELSE Handled(st, ErrorResponse("ObjectNotFound"))

(***************************************************************************)
(* The three outer commands and the adapter                                *)
(***************************************************************************)
\* What send_message gives its caller: Ok(bytes), Err(error), or a panic that unwinds
Returned(st, msg) == [st |-> st, kind |-> "Ok", msg |-> msg, err |-> "none"]

Failed(st, err) == [st |-> st, kind |-> "Err", msg |-> NoCommand, err |-> err]

Aborted(st) == [st |-> st, kind |-> "Panic", msg |-> NoCommand, err |-> "none"]

create_session(st, cmd_message, card_challenge) ==
    IF ~Deserializes(cmd_message.data, "CreateSession") THEN Aborted(st)
    ELSE LET c == State_create_session(st, cmd_message.data.authentication_key_id,
                                       cmd_message.data.host_challenge, card_challenge)
         IN IF ~c.ok THEN Aborted(st)
            ELSE Returned(c.st, Message("CreateSession", c.id,
                     [shape |-> "CreateSessionResponse", card_challenge |-> card_challenge,
                      card_cryptogram |-> Session_card_cryptogram(c.st.sessions[c.id])], NoMac))

\* authenticate_session that activates the session whatever the verification says
authenticate_session_unverified(st, command) ==
    IF command.session_id = NoSession THEN Aborted(st)
    ELSE IF ~State_has_session(st, command.session_id) THEN Failed(st, "InvalidSession")
    ELSE Returned([st EXCEPT !.sessions[command.session_id].security_level = "Authenticated"],
                  Message("AuthSession", command.session_id, [shape |-> "empty"], NoMac))

authenticate_session(st, command) ==
    IF command.session_id = NoSession THEN Aborted(st)
    ELSE IF ~State_has_session(st, command.session_id) THEN Failed(st, "InvalidSession")
    ELSE LET v == Session_verify_authenticate_session(st.sessions[command.session_id], command)
             st1 == [st EXCEPT !.sessions[command.session_id] = v.session]
         IN IF v.ok THEN Returned(st1, v.response) ELSE Aborted(st1)

\* close_session that answers and leaves the session in the table
close_session_kept(st, session_id) ==
    IF ~State_has_session(st, session_id) THEN Failed(st, "InvalidSession")
    ELSE Returned(st, Session_encrypt_response(st.sessions[session_id],
                                               Response("CloseSession", [shape |-> "empty"])))

close_session(st, session_id) ==
    IF ~State_has_session(st, session_id) THEN Failed(st, "InvalidSession")
    ELSE Returned(State_close_session(st, session_id),
                  Session_encrypt_response(st.sessions[session_id],
                                           Response("CloseSession", [shape |-> "empty"])))

\* reset_device that answers without resetting the state
reset_device_no_reset(st, session_id) ==
    IF ~State_has_session(st, session_id) THEN Aborted(st)
    ELSE Returned(st, Session_encrypt_response(st.sessions[session_id],
                                               Response("ResetDevice", [shape |-> "byte", byte |-> 1])))

\* reset_device that resets first and looks its session up for the response afterwards
reset_device_reset_first(st, session_id) ==
    LET st1 == State_reset(st)
    IN IF ~State_has_session(st1, session_id) THEN Aborted(st1)
       ELSE Returned(st1, Session_encrypt_response(st1.sessions[session_id],
                                                   Response("ResetDevice", [shape |-> "byte", byte |-> 1])))

reset_device(st, session_id) ==
    IF ~State_has_session(st, session_id) THEN Aborted(st)
    ELSE Returned(State_reset(st),
                  Session_encrypt_response(st.sessions[session_id],
                                           Response("ResetDevice", [shape |-> "byte", byte |-> 1])))

\* The inner command codes the match of session_message has an arm for
SupportedCodes ==
    {"BlinkDevice", "CloseSession", "DeleteObject", "DeviceInfo", "Echo", "ExportWrapped",
     "GenerateAsymmetricKey", "GenerateHmacKey", "GenerateWrapKey", "GetLogEntries",
     "GetObjectInfo", "GetOpaqueObject", "GetOption", "GetPseudoRandom", "GetPublicKey",
     "SignHmac", "ImportWrapped", "ListObjects", "PutAsymmetricKey", "PutAuthenticationKey",
     "PutHmacKey", "PutOpaqueObject", "SetOption", "PutWrapKey", "ResetDevice", "SetLogIndex",
     "SignEcdsa", "SignEddsa", "GetStorageInfo", "VerifyHmac", "SignPss", "SignPkcs1",
     "SignAttestationCertificate", "DecryptOaep"}

\* The arms of the match that produce a response::Message
Dispatch(st, command, rnd) ==
    CASE command.command_type = "BlinkDevice" -> Handled(st, Response("BlinkDevice", [shape |-> "empty"]))
      [] command.command_type = "DeleteObject" -> delete_object(st, command.data)
      [] command.command_type = "Echo" -> Handled(st, echo(command.data))
      [] command.command_type = "ExportWrapped" -> export_wrapped(st, command.data, rnd)
      [] command.command_type = "GenerateAsymmetricKey" -> gen_asymmetric_key(st, command.data, rnd)
      [] command.command_type = "GenerateHmacKey" -> gen_hmac_key(st, command.data, rnd)
      [] command.command_type = "GenerateWrapKey" -> gen_wrap_key(st, command.data, rnd)
      [] command.command_type = "GetObjectInfo" -> get_object_info(st, command.data)
      [] command.command_type = "GetOpaqueObject" -> get_opaque(st, command.data)
      [] command.command_type = "GetOption" -> get_option(st, command.data)
      [] command.command_type = "SignHmac" -> sign_hmac(st, command.data)
      [] command.command_type = "ImportWrapped" -> import_wrapped(st, command.data)
      [] command.command_type = "ListObjects" -> list_objects(st, command.data)
      [] command.command_type = "PutAsymmetricKey" -> put_asymmetric_key(st, command.data)
      [] command.command_type = "PutAuthenticationKey" -> put_authentication_key(st, command.data)
      [] command.command_type = "PutHmacKey" -> put_hmac_key(st, command.data)
      [] command.command_type = "PutOpaqueObject" -> put_opaque(st, command.data)
      [] command.command_type = "SetOption" -> put_option(st, command.data)
      [] command.command_type = "PutWrapKey" -> put_wrap_key(st, command.data)
      [] command.command_type = "SetLogIndex" -> Handled(st, Response("SetLogIndex", [shape |-> "empty"]))
      [] command.command_type = "VerifyHmac" -> verify_hmac(st, command.data)
      [] command.command_type = "SignAttestationCertificate" ->
             sign_attestation_certificate(st, command.data, rnd)
      [] command.command_type = "GetPublicKey" -> get_public_key(st, command.data)
      [] command.command_type = "SignEcdsa" -> sign_ecdsa(st, command.data)
      [] command.command_type = "SignEddsa" -> sign_eddsa(st, command.data)
      [] command.command_type = "SignPss" -> sign_pss(st, command.data, rnd)
      [] command.command_type = "SignPkcs1" -> sign_pkcs1v15(st, command.data)
      [] command.command_type = "DecryptOaep" -> decrypt_oaep(st, command.data)
      [] command.command_type = "DeviceInfo" -> Handled(st, device_info)
      [] command.command_type = "GetLogEntries" -> Handled(st, get_log_entries)
      [] command.command_type = "GetStorageInfo" -> Handled(st, get_storage_info)
      [] command.command_type = "GetPseudoRandom" -> get_pseudo_random(st, command.data, rnd)

\* session_message that decrypts on a copy of the session and drops the copy
session_message_copy(st, encrypted_command, rnd) ==
    IF encrypted_command.session_id = NoSession THEN Aborted(st)
    ELSE IF ~State_has_session(st, encrypted_command.session_id) THEN Failed(st, "InvalidSession")
    ELSE LET session_id == encrypted_command.session_id
             d == Session_decrypt_command(st.sessions[session_id], encrypted_command)
         IN IF ~d.ok THEN Aborted(st)
            ELSE CASE d.command.command_type = "CloseSession" -> close_session(st, session_id)
                   [] d.command.command_type = "ResetDevice" -> reset_device(st, session_id)
                   [] d.command.command_type \in SupportedCodes \ {"CloseSession", "ResetDevice"} ->
                          LET h == Dispatch(st, d.command, rnd)
                          IN IF h.panic THEN Aborted(h.st)
                             ELSE Returned(h.st, Session_encrypt_response(d.session, h.response))
                   [] OTHER -> Aborted(st)

session_message(st, encrypted_command, rnd) ==
    IF encrypted_command.session_id = NoSession THEN Aborted(st)
    ELSE IF ~State_has_session(st, encrypted_command.session_id) THEN Failed(st, "InvalidSession")
    ELSE LET session_id == encrypted_command.session_id
             d == Session_decrypt_command(st.sessions[session_id], encrypted_command)
             st1 == [st EXCEPT !.sessions[session_id] = d.session]
         IN IF ~d.ok THEN Aborted(st1)
            ELSE CASE d.command.command_type = "CloseSession" -> close_session(st1, session_id)
                   [] d.command.command_type = "ResetDevice" -> reset_device(st1, session_id)
                   [] d.command.command_type \in SupportedCodes \ {"CloseSession", "ResetDevice"} ->
                          LET h == Dispatch(st1, d.command, rnd)
                          IN IF h.panic THEN Aborted(h.st)
                             ELSE IF ~State_has_session(h.st, session_id) THEN Failed(h.st, "InvalidSession")
                             ELSE Returned(h.st, Session_encrypt_response(h.st.sessions[session_id], h.response))
                   [] OTHER -> Aborted(st1)

\* CommandMessage::parse: whether the body is a well-formed outer frame
Parses(body) == body.command_type # "Unparsable"

\* send_message that hands every other outer code to session_message
Locked_send_message_lenient(st, command, rnd) ==
    CASE command.command_type = "CreateSession" -> create_session(st, command, rnd)
      [] command.command_type = "AuthSession" -> authenticate_session(st, command)
      [] OTHER -> session_message(st, command, rnd)

\* MockAdapter::send_message once it holds the lock
Locked_send_message(st, command, rnd) ==
    CASE command.command_type = "CreateSession" -> create_session(st, command, rnd)
      [] command.command_type = "AuthSession" -> authenticate_session(st, command)
      [] command.command_type = "SessionMessage" -> session_message(st, command, rnd)
      [] OTHER -> Failed(st, "ConnectionFailed")

\* MockAdapter::send_message: parse, take the lock (an Err when poisoned), dispatch
send_message(st, is_poisoned, body, rnd) ==
    IF ~Parses(body) THEN Failed(st, "ConnectionFailed")
    ELSE IF is_poisoned THEN Failed(st, "ConnectionFailed")
    ELSE Locked_send_message(st, body, rnd)

(***************************************************************************)
(* The host: how a client that knows the authentication key builds its     *)
(* requests and opens the responses                                        *)
(***************************************************************************)
Host_create_session(authentication_key_id, host_challenge) ==
    Message("CreateSession", NoSession,
            [shape |-> "CreateSession", authentication_key_id |-> authentication_key_id,
             host_challenge |-> host_challenge], NoMac)

Host_authenticate_session(sess) ==
    LET msg == Message("AuthSession", sess.id,
                       [shape |-> "AuthSession", host_cryptogram |-> Cryptogram(sess.keys, 1)], NoMac)
    IN [msg EXCEPT !.mac = Cmac(S_MAC(sess.keys), sess.mac_chaining_value, MacData(msg))]

\* An AuthSession message made with `keys` and the cryptogram constant `constant`
Host_authenticate_with(sess, keys, constant) ==
    LET msg == Message("AuthSession", sess.id,
                       [shape |-> "AuthSession", host_cryptogram |-> Cryptogram(keys, constant)], NoMac)
    IN [msg EXCEPT !.mac = Cmac(S_MAC(keys), sess.mac_chaining_value, MacData(msg))]

\* A session message built with the session's keys, a counter and a chain value
Host_build(sess, counter, chain, code, data) ==
    LET body == Cbc_encrypt(S_ENC(sess.keys), counter, [code |-> code, data |-> data])
        msg == Message("SessionMessage", sess.id, body, NoMac)
    IN [msg EXCEPT !.mac = Cmac(S_MAC(sess.keys), chain, MacData(msg))]

\* The next message of a host that is in step with the device
Host_message(sess, code, data) == Host_build(sess, sess.counter, sess.mac_chaining_value, code, data)

NoPlain == Response("none", [shape |-> "none"])

\* The host opens the response to `req`, which it built for `sess`
Host_open(sess, req, resp) ==
    IF /\ resp.command_type = "SessionMessage"
       /\ resp.mac = Cmac(S_RMAC(sess.keys), ChainOf(req.mac), MacData([resp EXCEPT !.mac = NoMac]))
       /\ Cbc_opens(S_ENC(sess.keys), sess.counter, resp.data)
    THEN resp.data.plaintext
    ELSE NoPlain

\* One byte of the ciphertext, or of the MAC, altered in flight
TamperCiphertext(msg) == [msg EXCEPT !.data.intact = FALSE]

TamperMac(msg) == [msg EXCEPT !.mac.data = <<"altered">>]

(***************************************************************************)
(* Requests as steps of the system                                         *)
(***************************************************************************)
NoHandle == "none"

Handles == {"h1", "h2"}

NoState == [objects |-> <<>>, sessions |-> EmptyMap, command_audit_options |-> EmptyMap,
            force_audit |-> "Off", fips |-> "Off"]

\* A handle's call of send_message: where it is, the body it was given, and the
\* state it has read under the lock
Idle == [pc |-> "idle", body |-> NoCommand, snap |-> NoState]

NoTrip == [phase |-> "none", wrap_key_id |-> 0, obj |-> DefaultAuthKey, nonce |-> 0,
           ciphertext |-> NoCiphertext]

\* Whether the device accepts the MAC and counter of a session message
MacAccepted(st, is_poisoned, body) ==
    /\ ~is_poisoned
    /\ body.command_type = "SessionMessage"
    /\ State_has_session(st, body.session_id)
    /\ Session_decrypt_command(st.sessions[body.session_id], body).ok

\* The plaintext the host put into a session message
InnerOf(body) == IF body.command_type = "SessionMessage" THEN body.data.plaintext ELSE NoPlain

\* What the host reads from what send_message returned
Observed(st, body, r) ==
    IF r.kind = "Ok" /\ body.command_type = "SessionMessage" /\ State_has_session(st, body.session_id)
    THEN Host_open(st.sessions[body.session_id], body, r.msg)
    ELSE NoPlain

\* The round trip ExportWrapped{w, o}, DeleteObject{o}, ImportWrapped{w, nonce, ciphertext}
TripNext(t, st, is_poisoned, body, plain) ==
    IF ~MacAccepted(st, is_poisoned, body) THEN NoTrip
    ELSE LET inner == InnerOf(body)
         IN CASE inner.code = "ExportWrapped" /\ plain.code = "ExportWrapped" ->
                     [phase |-> "exported", wrap_key_id |-> inner.data.wrap_key_id,
                      obj |-> Objects_get(st.objects, inner.data.object_id, inner.data.object_type),
                      nonce |-> plain.data.nonce, ciphertext |-> plain.data.ciphertext]
              [] /\ inner.code = "DeleteObject" /\ plain.code = "DeleteObject"
                 /\ t.phase = "exported"
                 /\ <<inner.data.object_id, inner.data.object_type>> = Handle(t.obj) ->
                     [t EXCEPT !.phase = "deleted"]
              [] /\ inner.code = "ImportWrapped" /\ t.phase = "deleted"
                 /\ inner.data = [shape |-> "ImportWrapped", wrap_key_id |-> t.wrap_key_id,
                                  nonce |-> t.nonce, ciphertext |-> t.ciphertext] ->
                     [t EXCEPT !.phase = "imported"]
              [] OTHER -> NoTrip

\* The state the request leaves behind
Install(r) ==
    /\ objects' = r.st.objects
    /\ sessions' = r.st.sessions
    /\ command_audit_options' = r.st.command_audit_options
    /\ force_audit' = r.st.force_audit
    /\ fips' = r.st.fips
    /\ poisoned' = (poisoned \/ r.kind = "Panic")

\* What the host saw of its latest request, with the store and the open session
\* ids as they were when the request was sent
Outcome(body, how, r, plain) ==
    [req |-> body, how |-> how, kind |-> r.kind, msg |-> r.msg, err |-> r.err, plain |-> plain,
     before |-> objects, open |-> DOMAIN sessions]

\* The caller has its result `r`, read by the host as `plain`
Return(r, plain, body, how, keep) ==
    /\ lock = NoHandle
    /\ Install(r)
    /\ last' = Outcome(body, how, r, plain)
    /\ IF keep /\ MacAccepted(State, poisoned, body) THEN kept' \in {kept, body} ELSE kept' = kept
    /\ trip' = TripNext(trip, State, poisoned, body, plain)
    /\ rng' = IF body.command_type = "CreateSession" /\ r.kind = "Ok" THEN rng + 1 ELSE rng
    /\ UNCHANGED <<lock, handles>>

Respond(r, body, how, keep) == Return(r, Observed(State, body, r), body, how, keep)

\* One whole call of send_message: parse, lock, dispatch, unlock
Step(body, rnd, how, keep) == Respond(send_message(State, poisoned, body, rnd), body, how, keep)

\* How many session messages the open sessions have accepted
RECURSIVE Accepted(_, _)
Accepted(ss, ids) ==
    IF ids = {} THEN 0
    ELSE LET sid == CHOOSE i \in ids : TRUE
         IN (ss[sid].counter - 1) + Accepted(ss, ids \ {sid})

\* The open sessions have accepted fewer than `bound` messages
Within(bound) == Accepted(sessions, DOMAIN sessions) < bound

\* The next in-step message on an authenticated session
SendInner(code, data, rnd, keep) ==
    \E sid \in DOMAIN sessions :
        /\ sessions[sid].security_level = "Authenticated"
        /\ Step(Host_message(sessions[sid], code, data), rnd, "fresh", keep)

Init ==
    /\ objects = Objects_default
    /\ sessions = EmptyMap
    /\ command_audit_options = EmptyMap
    /\ force_audit = "Off"
    /\ fips = "Off"
    /\ poisoned = FALSE
    /\ lock = NoHandle
    /\ handles = [h \in Handles |-> Idle]
    /\ rng = 0
    /\ last = Outcome(NoCommand, "none", Failed(State, "none"), NoPlain)
    /\ kept = NoCommand
    /\ trip = NoTrip

(***************************************************************************)
(* Operations                                                              *)
(***************************************************************************)
HostChallenge == Bytes(8, 7)

CreateSession(max_sessions, max_challenges, keep) ==
    /\ Cardinality(DOMAIN sessions) < max_sessions
    /\ rng < max_challenges
    /\ Step(Host_create_session(DEFAULT_AUTHENTICATION_KEY_ID, HostChallenge), rng + 1, "fresh", keep)

AuthSession(keep) ==
    \E sid \in DOMAIN sessions :
        /\ sessions[sid].security_level = "None"
        /\ Step(Host_authenticate_session(sessions[sid]), 0, "fresh", keep)

EchoData == {<<>>, <<104, 105>>}

Echo(bound, keep) ==
    /\ Within(bound)
    /\ \E b \in EchoData : SendInner("Echo", [shape |-> "bytes", bytes |-> b], 0, keep)

Params(id, label, domains, capabilities, algorithm) ==
    [id |-> id, label |-> label, domains |-> domains, capabilities |-> capabilities,
     algorithm |-> algorithm]

PutOpaqueCommand(id, algorithm, data) ==
    [shape |-> "PutOpaque", params |-> Params(id, "blob", {1}, {}, algorithm), data |-> data]

DeleteObjectCommand(id, ty) == [shape |-> "DeleteObject", object_id |-> id, object_type |-> ty]

GetObjectInfoCommand(id, ty) == [shape |-> "GetObjectInfo", object_id |-> id, object_type |-> ty]

SetOptionCommand(tag, length, value) == [shape |-> "SetOption", tag |-> tag, length |-> length, value |-> value]

PutHmacKeyCommand(id, algorithm, data) ==
    [shape |-> "PutHmacKey", params |-> Params(id, "mac", {1}, {"SignHmac", "VerifyHmac"}, algorithm),
     data |-> data]

GenHmacKeyCommand(id, algorithm) ==
    [shape |-> "GenHmacKey", key_id |-> id, label |-> "mac", domains |-> {1},
     capabilities |-> {"SignHmac", "VerifyHmac"}, algorithm |-> algorithm]

GenWrapKeyCommand(id, algorithm, capabilities) ==
    [shape |-> "GenWrapKey",
     params |-> [key_id |-> id, label |-> "wrap", domains |-> {1}, capabilities |-> capabilities,
                 algorithm |-> algorithm],
     delegated_capabilities |-> Capability_all]

ListObjectsCommand(filters) == [shape |-> "ListObjects", filters |-> filters]

ExportWrappedCommand(wrap_key_id, ty, id) ==
    [shape |-> "ExportWrapped", wrap_key_id |-> wrap_key_id, object_type |-> ty, object_id |-> id]

ImportWrappedCommand(wrap_key_id, nonce, ciphertext) ==
    [shape |-> "ImportWrapped", wrap_key_id |-> wrap_key_id, nonce |-> nonce, ciphertext |-> ciphertext]

SignHmacCommand(key_id, data) == [shape |-> "SignHmac", key_id |-> key_id, data |-> data]

VerifyHmacCommand(key_id, tag) == [shape |-> "VerifyHmac", key_id |-> key_id, tag |-> tag]

PutHmacKey(ids, algs, values, bound, keep) ==
    /\ Within(bound)
    /\ \E id \in ids, alg \in algs, v \in values :
           SendInner("PutHmacKey", PutHmacKeyCommand(id, alg, Bytes(32, v)), 0, keep)

GenerateHmacKey(ids, algs, seeds, bound, keep) ==
    /\ Within(bound)
    /\ \E id \in ids, alg \in algs, seed \in seeds :
           SendInner("GenerateHmacKey", GenHmacKeyCommand(id, alg), seed, keep)

GenerateWrapKey(ids, capabilities, seeds, bound, keep) ==
    /\ Within(bound)
    /\ \E id \in ids, caps \in capabilities, seed \in seeds :
           SendInner("GenerateWrapKey", GenWrapKeyCommand(id, "Aes128Ccm", caps), seed, keep)

GetObjectInfo(ids, types, bound, keep) ==
    /\ Within(bound)
    /\ \E id \in ids, ty \in types :
           SendInner("GetObjectInfo", GetObjectInfoCommand(id, ty), 0, keep)

ListObjects(filters, bound, keep) ==
    /\ Within(bound)
    /\ \E f \in filters : SendInner("ListObjects", ListObjectsCommand(f), 0, keep)

PutAsymmetricKeyCommand(id, algorithm, data) ==
    [shape |-> "PutAsymmetricKey", params |-> Params(id, "sig", {1}, {"SignEddsa"}, algorithm),
     data |-> data]

PutAsymmetricKey(ids, algs, values, bound, keep) ==
    /\ Within(bound)
    /\ \E id \in ids, alg \in algs, v \in values :
           SendInner("PutAsymmetricKey", PutAsymmetricKeyCommand(id, alg, Bytes(KeyLen(alg), v)), 0, keep)

\* ImportWrapped of a blob the host holds from an export made elsewhere under the
\* same wrap key material: the wrapped form of an opaque object
ImportBlob(wrap_key_ids, seeds, ids, values, bound, keep) ==
    /\ Within(bound)
    /\ \E w \in wrap_key_ids, seed \in seeds, id \in ids, v \in values :
           LET obj == Object(Info(id, "Opaque", "OpaqueData", "blob", {}, {}, {1}, "Generated"),
                             Payload_new("OpaqueData", Bytes(3, v)))
               blob == AesCcm_encrypt(Bytes(KeyLen("Aes128Ccm"), seed), 9, Wrapped_serialize(obj))
           IN SendInner("ImportWrapped", ImportWrappedCommand(w, 9, blob), 0, keep)

ExportWrapped(wrap_key_ids, targets, nonces, bound, keep) ==
    /\ Within(bound)
    /\ \E w \in wrap_key_ids, t \in targets, nonce \in nonces :
           SendInner("ExportWrapped", ExportWrappedCommand(w, t[2], t[1]), nonce, keep)

\* ImportWrapped with the nonce and ciphertext of the latest export
ImportExported(bound, keep) ==
    /\ Within(bound)
    /\ trip.phase \in {"exported", "deleted"}
    /\ SendInner("ImportWrapped", ImportWrappedCommand(trip.wrap_key_id, trip.nonce, trip.ciphertext),
                 0, keep)

\* Data strings to sign, and the key bytes the host puts
HmacData == {<<>>, <<1>>, <<2, 1>>}

HmacKeyBytes == Bytes(32, 1)

\* One byte of a tag altered
AlterTag(tag) == [tag EXCEPT ![1] = (@ + 1) % 256]

\* The 32-byte strings the host offers as the tag of d: the tag of d, that tag
\* with one byte altered, and the tag of every other data string
OfferedTags(d) ==
    {Hmac_Sha256(HmacKeyBytes, e) : e \in HmacData} \cup {AlterTag(Hmac_Sha256(HmacKeyBytes, d))}

SignHmac(ids, bound, keep) ==
    /\ Within(bound)
    /\ \E id \in ids, d \in HmacData :
           SendInner("SignHmac", SignHmacCommand(id, d), 0, keep)

VerifyHmac(ids, bound, keep) ==
    /\ Within(bound)
    /\ \E id \in ids, d \in HmacData :
           \E t \in OfferedTags(d) :
               SendInner("VerifyHmac", VerifyHmacCommand(id, t \o d), 0, keep)

PutOpaque(ids, values, bound, keep) ==
    /\ Within(bound)
    /\ \E id \in ids, v \in values :
           SendInner("PutOpaqueObject", PutOpaqueCommand(id, "OpaqueData", Bytes(3, v)), 0, keep)

DeleteObject(ids, types, bound, keep) ==
    /\ Within(bound)
    /\ \E id \in ids, ty \in types :
           SendInner("DeleteObject", DeleteObjectCommand(id, ty), 0, keep)

SetForce(options, bound, keep) ==
    /\ Within(bound)
    /\ \E o \in options :
           SendInner("SetOption", SetOptionCommand("Force", 1, <<AuditOption_to_u8(o)>>), 0, keep)

ResetDevice(bound, keep) ==
    /\ Within(bound)
    /\ SendInner("ResetDevice", [shape |-> "empty"], 0, keep)

CloseSession(bound, keep) ==
    /\ Within(bound)
    /\ SendInner("CloseSession", [shape |-> "empty"], 0, keep)

\* The identical bytes of a session message that was accepted before
Replay ==
    /\ kept # NoCommand
    /\ Step(kept, 0, "replay", FALSE)

\* An in-step Echo with one ciphertext byte, or one MAC byte, altered
Tamper(bound) ==
    \E sid \in DOMAIN sessions, b \in {<<104, 105>>} :
        /\ sessions[sid].security_level = "Authenticated"
        /\ Within(bound)
        /\ \/ Step(TamperCiphertext(Host_message(sessions[sid], "Echo", [shape |-> "bytes", bytes |-> b])),
                   0, "tamper", TRUE)
           \/ Step(TamperMac(Host_message(sessions[sid], "Echo", [shape |-> "bytes", bytes |-> b])),
                   0, "tamper", TRUE)

\* Session keys of a host that derives them from another password
WrongKeys(sess) == SessionKeys(Payload_new("YubicoAes", Bytes(32, 9)), sess.host_challenge, sess.card_challenge)

\* An AuthSession that does not verify: the card cryptogram sent back in place of the
\* host cryptogram, a MAC byte altered, or cryptogram and MAC made with wrong keys
BadAuth ==
    \E sid \in DOMAIN sessions :
        /\ sessions[sid].security_level = "None"
        /\ \/ Step(Host_authenticate_with(sessions[sid], sessions[sid].keys, 0), 0, "badauth", FALSE)
           \/ Step(TamperMac(Host_authenticate_session(sessions[sid])), 0, "badauth", FALSE)
           \/ Step(Host_authenticate_with(sessions[sid], WrongKeys(sessions[sid]), 1), 0, "badauth", FALSE)

\* The inner commands a host sends before its AuthSession
PrematureCommands ==
    {[code |-> "PutOpaqueObject", data |-> PutOpaqueCommand(2, "OpaqueData", Bytes(3, 1))],
     [code |-> "ResetDevice", data |-> [shape |-> "empty"]],
     [code |-> "CloseSession", data |-> [shape |-> "empty"]]}

\* A session message for a session that was created but is not authenticated
Premature ==
    \E sid \in DOMAIN sessions, c \in PrematureCommands :
        /\ sessions[sid].security_level = "None"
        /\ Step(Host_message(sessions[sid], c.code, c.data), 0, "premature", FALSE)

\* An Echo built with the session's current chain value and a counter that is one
\* below or one above the session's counter
OffCounter(bound) ==
    \E sid \in DOMAIN sessions :
        /\ sessions[sid].security_level = "Authenticated"
        /\ Within(bound)
        /\ \E c \in {sessions[sid].counter - 1} \cup
                     (IF sessions[sid].counter < COUNTER_MAX THEN {sessions[sid].counter + 1} ELSE {}) :
               Step(Host_build(sessions[sid], c, sessions[sid].mac_chaining_value,
                               "Echo", [shape |-> "bytes", bytes |-> <<104, 105>>]),
                    0, "offcounter", FALSE)

\* Inner commands of a known code whose body is not a serialized request of that
\* code: bodies cut short, and a ListObjects filter with a tag no filter has
MalformedCommands ==
    {[code |-> "DeleteObject", data |-> [shape |-> "short"]],
     [code |-> "GenerateAsymmetricKey", data |-> [shape |-> "short"]],
     [code |-> "ListObjects", data |-> [shape |-> "short"]],
     [code |-> "ListObjects", data |-> [shape |-> "ListObjects", filters |-> <<[tag |-> "NoSuchTag", value |-> 0]>>]]}

Malformed(bound) ==
    /\ Within(bound)
    /\ \E sid \in DOMAIN sessions, c \in MalformedCommands :
           /\ sessions[sid].security_level = "Authenticated"
           /\ Step(Host_message(sessions[sid], c.code, c.data), 0, "malformed", FALSE)

\* An in-step session message whose inner code the match of session_message has
\* no arm for
Unsupported(bound) ==
    /\ Within(bound)
    /\ \E sid \in DOMAIN sessions, code \in {"SignSshCertificate"} :
           /\ sessions[sid].security_level = "Authenticated"
           /\ code \notin SupportedCodes
           /\ Step(Host_message(sessions[sid], code, [shape |-> "empty"]), 0, "unsupported", FALSE)

SignAttestationCertificateCommand(key_id, attestation_key_id) ==
    [shape |-> "SignAttestationCertificate", key_id |-> key_id, attestation_key_id |-> attestation_key_id]

SignAttestationCertificate(key_ids, attestation_key_ids, serials, bound, keep) ==
    /\ Within(bound)
    /\ \E k \in key_ids, a \in attestation_key_ids, serial \in serials :
           SendInner("SignAttestationCertificate", SignAttestationCertificateCommand(k, a), serial, keep)

\* VerifyHmac whose payload after the key id is shorter than a tag
VerifyHmacShort(ids, bound, keep) ==
    /\ Within(bound)
    /\ \E id \in ids, t \in {<<>>, <<1, 2, 3>>} :
           SendInner("VerifyHmac", VerifyHmacCommand(id, t), 0, keep)

\* SetOption whose length field is not the length its tag has
SetOptionBadLength(bound, keep) ==
    /\ Within(bound)
    /\ \E c \in {SetOptionCommand("Force", 2, <<1>>), SetOptionCommand("Fips", 0, <<1>>),
                  SetOptionCommand("Command", 1, <<"Echo", 1>>)} :
           SendInner("SetOption", c, 0, keep)

\* The host's copy of a session the device opened with challenge `card_challenge`
\* under id `sid`, after it has sent `sent` messages on it
Host_session(sid, card_challenge, sent) ==
    [Session_new(sid, DEFAULT_AUTHENTICATION_KEY_ID, DefaultAuthKey.payload, HostChallenge, card_challenge)
        EXCEPT !.counter = sent + 1, !.security_level = "Authenticated"]

\* Commands a host goes on sending on a session id that is no longer open
StaleCommands ==
    {[code |-> "PutOpaqueObject", data |-> PutOpaqueCommand(2, "OpaqueData", Bytes(3, 1))],
     [code |-> "DeleteObject", data |-> DeleteObjectCommand(2, "Opaque")],
     [code |-> "Echo", data |-> [shape |-> "bytes", bytes |-> <<104, 105>>]],
     [code |-> "CloseSession", data |-> [shape |-> "empty"]]}

Stale(max_sessions, max_challenges) ==
    \E sid \in (0..(max_sessions - 1)) \ DOMAIN sessions, ch \in 1..max_challenges, c \in StaleCommands :
        /\ ch <= rng
        /\ Step(Host_message(Host_session(sid, ch, 2), c.code, c.data), 0, "stale", FALSE)

GenAsymmetricKeyCommand(id, algorithm) ==
    [shape |-> "GenAsymmetricKey", key_id |-> id, label |-> "sig", domains |-> {1},
     capabilities |-> {"SignEddsa"}, algorithm |-> algorithm]

\* Generate* and Put* whose algorithm is not one of the object type
MismatchedCommands ==
    {[code |-> "GenerateHmacKey", data |-> GenHmacKeyCommand(2, "Ed25519")],
     [code |-> "GenerateAsymmetricKey", data |-> GenAsymmetricKeyCommand(2, "HmacSha256")],
     [code |-> "GenerateWrapKey", data |-> GenWrapKeyCommand(3, "HmacSha256", {"ExportWrapped"})],
     [code |-> "PutHmacKey", data |-> PutHmacKeyCommand(2, "Aes128Ccm", Bytes(16, 1))],
     [code |-> "PutOpaqueObject", data |-> PutOpaqueCommand(2, "HmacSha256", Bytes(3, 1))]}

\* Put* whose key material has a size the algorithm does not have
MissizedCommands ==
    {[code |-> "PutAsymmetricKey", data |-> PutAsymmetricKeyCommand(2, "Ed25519", Bytes(31, 1))],
     [code |-> "PutAsymmetricKey", data |-> PutAsymmetricKeyCommand(2, "EcP256", Bytes(48, 1))]}

Mismatched(bound) ==
    /\ Within(bound)
    /\ \E sid \in DOMAIN sessions, c \in MismatchedCommands :
           /\ sessions[sid].security_level = "Authenticated"
           /\ Step(Host_message(sessions[sid], c.code, c.data), 5, "mismatched", FALSE)

Missized(bound) ==
    /\ Within(bound)
    /\ \E sid \in DOMAIN sessions, c \in MissizedCommands :
           /\ sessions[sid].security_level = "Authenticated"
           /\ Step(Host_message(sessions[sid], c.code, c.data), 0, "missized", FALSE)

PutWrapKeyCommand(id, algorithm, data) ==
    [shape |-> "PutWrapKey",
     params |-> Params(id, "wrap", {1}, {"ExportWrapped", "ImportWrapped"}, algorithm),
     delegated_capabilities |-> Capability_all, data |-> data]

PutWrapKey(ids, values, bound, keep) ==
    /\ Within(bound)
    /\ \E id \in ids, v \in values :
           SendInner("PutWrapKey", PutWrapKeyCommand(id, "Aes128Ccm", Bytes(KeyLen("Aes128Ccm"), v)), 0, keep)

\* ImportWrapped of a blob the host made itself with the key material it put as
\* the wrap key: the info header names one object type and an algorithm of another
ImportMistyped(wrap_key_ids, values, ids, bound, keep) ==
    /\ Within(bound)
    /\ \E w \in wrap_key_ids, v \in values, id \in ids :
           LET obj == Object(Info(id, "HmacKey", "Ed25519", "mac", {"SignHmac"}, {}, {1}, "Imported"),
                             Payload_new("Ed25519", Bytes(KeyLen("Ed25519"), 1)))
               blob == AesCcm_encrypt(Bytes(KeyLen("Aes128Ccm"), v), 9, Wrapped_serialize(obj))
           IN SendInner("ImportWrapped", ImportWrappedCommand(w, 9, blob), 0, keep)

GetOpaqueCommand(id) == [shape |-> "GetOpaque", object_id |-> id]

GetOpaque(ids, bound, keep) ==
    /\ Within(bound)
    /\ \E id \in ids : SendInner("GetOpaqueObject", GetOpaqueCommand(id), 0, keep)

GetPublicKeyCommand(key_id) == [shape |-> "GetPublicKey", key_id |-> key_id]

GetPublicKey(ids, bound, keep) ==
    /\ Within(bound)
    /\ \E id \in ids : SendInner("GetPublicKey", GetPublicKeyCommand(id), 0, keep)

GenerateAsymmetricKey(ids, algs, seeds, bound, keep) ==
    /\ Within(bound)
    /\ \E id \in ids, alg \in algs, seed \in seeds :
           SendInner("GenerateAsymmetricKey", GenAsymmetricKeyCommand(id, alg), seed, keep)

SignEddsaCommand(key_id, data) == [shape |-> "SignEddsa", key_id |-> key_id, data |-> data]

SignEddsa(ids, bound, keep) ==
    /\ Within(bound)
    /\ \E id \in ids : SendInner("SignEddsa", SignEddsaCommand(id, <<104, 105>>), 0, keep)

\* ImportWrapped of a blob made under the wrap key material `seed` names, with one
\* byte of the ciphertext altered on the way
ImportAltered(wrap_key_ids, seeds, ids, bound, keep) ==
    /\ Within(bound)
    /\ \E w \in wrap_key_ids, seed \in seeds, id \in ids :
           LET obj == Object(Info(id, "Opaque", "OpaqueData", "blob", {}, {}, {1}, "Generated"),
                             Payload_new("OpaqueData", Bytes(3, 3)))
               blob == AesCcm_encrypt(Bytes(KeyLen("Aes128Ccm"), seed), 9, Wrapped_serialize(obj))
           IN SendInner("ImportWrapped", ImportWrappedCommand(w, 9, [blob EXCEPT !.intact = FALSE]), 0, keep)

SignPkcs1Command(key_id, digest) == [shape |-> "SignPkcs1", key_id |-> key_id, digest |-> digest]

SignPkcs1(ids, lens, bound, keep) ==
    /\ Within(bound)
    /\ \E id \in ids, len \in lens :
           SendInner("SignPkcs1", SignPkcs1Command(id, Bytes(len, 8)), 0, keep)

SignPssCommand(key_id, mgf1_hash_alg, digest) ==
    [shape |-> "SignPss", key_id |-> key_id, mgf1_hash_alg |-> mgf1_hash_alg,
     salt_len |-> DigestLen(mgf1_hash_alg), digest |-> digest]

SignPss(ids, algs, lens, salts, bound, keep) ==
    /\ Within(bound)
    /\ \E id \in ids, alg \in algs, len \in lens, salt \in salts :
           SendInner("SignPss", SignPssCommand(id, alg, Bytes(len, 8)), salt, keep)

SignEcdsaCommand(key_id, digest) == [shape |-> "SignEcdsa", key_id |-> key_id, digest |-> digest]

SignEcdsa(ids, lens, bound, keep) ==
    /\ Within(bound)
    /\ \E id \in ids, len \in lens :
           SendInner("SignEcdsa", SignEcdsaCommand(id, Bytes(len, 8)), 0, keep)

DecryptOaepCommand(key_id, mgf1_hash_alg, data, label_hash) ==
    [shape |-> "DecryptOaep", key_id |-> key_id, mgf1_hash_alg |-> mgf1_hash_alg,
     data |-> data, label_hash |-> label_hash]

\* DecryptOaep of a ciphertext the host made for the public key of key material
\* `v`, with label 2: sent with the hash of that label, of another label, or with
\* `short` bytes of it missing, and intact or with a byte altered
DecryptOaep(ids, algs, vs, labels, shorts, intacts, bound, keep) ==
    /\ Within(bound)
    /\ \E id \in ids, alg \in algs, v \in vs, label \in labels, short \in shorts, intact \in intacts :
           LET to == Payload_public_key_bytes(Payload_new("Rsa2048", Bytes(KeyLen("Rsa2048"), v)))
               data == Oaep_encrypt(to, alg, Bytes(DigestLen(alg), 2), Bytes(3, 4))
           IN SendInner("DecryptOaep",
                        DecryptOaepCommand(id, alg, [data EXCEPT !.intact = intact],
                                           Bytes(DigestLen(alg) - short, label)),
                        0, keep)

GetOptionCommand(tag) == [shape |-> "GetOption", tag |-> tag]

GetOption(tags, bound, keep) ==
    /\ Within(bound)
    /\ \E tag \in tags : SendInner("GetOption", GetOptionCommand(tag), 0, keep)

\* SetOption of a flag with one byte, or of a command's entry with (code, byte)
SetOption(tags, codes, bytes, bound, keep) ==
    /\ Within(bound)
    /\ \E tag \in tags, code \in codes, byte \in bytes :
           SendInner("SetOption",
                     IF tag = "Command" THEN SetOptionCommand(tag, 2, <<code, byte>>)
                     ELSE SetOptionCommand(tag, 1, <<byte>>), 0, keep)

GetPseudoRandomCommand(bytes) == [shape |-> "GetPseudoRandom", bytes |-> bytes]

\* The commands that take nothing from the store: reports, the LED, the log index
\* and random bytes
Query(lens, rnds, bound, keep) ==
    /\ Within(bound)
    /\ \/ \E code \in {"DeviceInfo", "GetStorageInfo", "BlinkDevice", "GetLogEntries", "SetLogIndex"} :
              SendInner(code, [shape |-> "empty"], 0, keep)
       \/ \E len \in lens, rnd \in rnds :
              SendInner("GetPseudoRandom", GetPseudoRandomCommand(len), rnd, keep)

\* CreateSession naming any of the authentication key ids
CreateSessionWith(key_ids, max_sessions, max_challenges) ==
    /\ Cardinality(DOMAIN sessions) < max_sessions
    /\ rng < max_challenges
    /\ \E key_id \in key_ids :
           Step(Host_create_session(key_id, HostChallenge), rng + 1, "fresh", FALSE)

\* An outer frame whose code is an inner command's: sent outside any session
OuterOther(codes) ==
    \E code \in codes :
        Step(Message(code, NoSession, [shape |-> "empty"], NoMac), 0, "outer", FALSE)

\* Bytes that CommandMessage::parse refuses
Unparsable ==
    Step(Message("Unparsable", NoSession, [shape |-> "empty"], NoMac), 0, "unparsable", FALSE)

\* An AuthSession naming a session id that is not in the table
StaleAuth(max_sessions, max_challenges) ==
    \E sid \in (0..(max_sessions - 1)) \ DOMAIN sessions, ch \in 1..max_challenges :
        Step(Host_authenticate_session(
                 Session_new(sid, DEFAULT_AUTHENTICATION_KEY_ID, DefaultAuthKey.payload, HostChallenge, ch)),
             0, "stale", FALSE)

(***************************************************************************)
(* Spec: the session layer. Handshakes, Echo, commands that change the     *)
(* store and the audit options, replays and tampered messages.             *)
(***************************************************************************)
Next ==
    \/ CreateSession(MaxSessions, MaxChallenges, TRUE)
    \/ AuthSession(TRUE)
    \/ Echo(MaxCounter, TRUE)
    \/ PutOpaque({2}, {1}, MaxCounter, TRUE)
    \/ DeleteObject({2}, {"Opaque"}, MaxCounter, TRUE)
    \/ SetForce({"On"}, MaxCounter, TRUE)
    \/ ResetDevice(MaxCounter, TRUE)
    \/ CloseSession(MaxCounter, TRUE)
    \/ Replay
    \/ Tamper(MaxCounter)

Spec == Init /\ [][Next]_vars

(***************************************************************************)
(* SpecReset: several sessions, a store that holds more than the default   *)
(* key, ResetDevice, and messages for sessions that were open before it.   *)
(***************************************************************************)
NextReset ==
    \/ CreateSession(MaxResetSessions, MaxResetChallenges, TRUE)
    \/ AuthSession(TRUE)
    \/ PutOpaque({2}, {1}, MaxResetCounter, TRUE)
    \/ GetObjectInfo({2}, {"Opaque"}, MaxResetCounter, TRUE)
    \/ ResetDevice(MaxResetCounter, TRUE)
    \/ Replay

SpecReset == Init /\ [][NextReset]_vars

(***************************************************************************)
(* SpecStore: one session that puts, generates, deletes, looks up and      *)
(* lists objects of two types under one id.                                *)
(***************************************************************************)
IdTypeFilters(id, ty) == <<[tag |-> "Id", value |-> id], [tag |-> "Type", value |-> ty]>>

NextStore ==
    \/ CreateSession(MaxSessions, MaxSessions, FALSE)
    \/ AuthSession(FALSE)
    \/ PutOpaque({2}, {1, 2}, MaxStoreCounter, FALSE)
    \/ PutHmacKey({2}, {"HmacSha256"}, {1}, MaxStoreCounter, FALSE)
    \/ PutAsymmetricKey({2}, {"Ed25519"}, {1}, MaxStoreCounter, FALSE)
    \/ GenerateHmacKey({2}, {"HmacSha256"}, {5}, MaxStoreCounter, FALSE)
    \/ GenerateWrapKey({3}, {{"ExportWrapped", "ImportWrapped"}}, {5}, MaxStoreCounter, FALSE)
    \/ ImportBlob({3}, {5}, {2}, {3}, MaxStoreCounter, FALSE)
    \/ DeleteObject({2}, {"Opaque", "HmacKey"}, MaxStoreCounter, FALSE)
    \/ GetObjectInfo({2}, {"Opaque"}, MaxStoreCounter, FALSE)
    \/ ListObjects({<<>>, IdTypeFilters(2, "HmacKey")}, MaxStoreCounter, FALSE)

SpecStore == Init /\ [][NextStore]_vars

(***************************************************************************)
(* SpecWrap: a wrap key with or without the export capability, an opaque   *)
(* object, exports of the object and of the wrap key itself, deletes, and  *)
(* imports of what was exported.                                           *)
(***************************************************************************)
NextWrap ==
    \/ CreateSession(MaxSessions, MaxSessions, FALSE)
    \/ AuthSession(FALSE)
    \/ GenerateWrapKey({3}, {{"ExportWrapped", "ImportWrapped"}, {}}, {5}, MaxWrapCounter, FALSE)
    \/ PutOpaque({2}, {1}, MaxWrapCounter, FALSE)
    \/ ExportWrapped({3}, {<<2, "Opaque">>, <<3, "WrapKey">>}, {9}, MaxWrapCounter, FALSE)
    \/ DeleteObject({2}, {"Opaque"}, MaxWrapCounter, FALSE)
    \/ DeleteObject({3}, {"WrapKey"}, MaxWrapCounter, FALSE)
    \/ ImportExported(MaxWrapCounter, FALSE)

SpecWrap == Init /\ [][NextWrap]_vars

(***************************************************************************)
(* SpecHmac: HMAC keys of two algorithms put under one id, SignHmac and    *)
(* VerifyHmac with right and wrong tags.                                   *)
(***************************************************************************)
NextHmac ==
    \/ CreateSession(MaxSessions, MaxSessions, FALSE)
    \/ AuthSession(FALSE)
    \/ PutHmacKey({4}, {"HmacSha256", "HmacSha1"}, {1}, MaxHmacCounter, FALSE)
    \/ SignHmac({4}, MaxHmacCounter, FALSE)
    \/ VerifyHmac({4}, MaxHmacCounter, FALSE)

SpecHmac == Init /\ [][NextHmac]_vars

(***************************************************************************)
(* SpecConc: two adapter handles on one MockHSM. A call of send_message is *)
(* four steps: parse the body, take the lock, read the state, write the    *)
(* result back and drop the lock.                                          *)
(***************************************************************************)
\* a lock that every caller can take at once
LockIgnored == TRUE

\* Mutex::lock returns once no other handle holds the guard
LockAvailable == lock = NoHandle

\* send_message lines 27-28: the body parses, the call goes on to the lock
Begin(h, body) ==
    /\ handles[h].pc = "idle"
    /\ Parses(body)
    /\ handles' = [handles EXCEPT ![h] = [pc |-> "parsed", body |-> body, snap |-> NoState]]
    /\ UNCHANGED <<objects, sessions, command_audit_options, force_audit, fips, poisoned, lock,
                   rng, last, kept, trip>>

BeginCreateSession(h) ==
    /\ rng < MaxConcChallenges
    /\ Begin(h, Host_create_session(DEFAULT_AUTHENTICATION_KEY_ID, HostChallenge))

BeginAuthSession(h) ==
    \E sid \in DOMAIN sessions :
        /\ sessions[sid].security_level = "None"
        /\ Begin(h, Host_authenticate_session(sessions[sid]))

BeginPutOpaque(h) ==
    \E sid \in DOMAIN sessions, v \in {1, 2} :
        /\ sessions[sid].security_level = "Authenticated"
        /\ Accepted(sessions, DOMAIN sessions) < MaxConcCounter
        /\ Begin(h, Host_message(sessions[sid], "PutOpaqueObject",
                                 PutOpaqueCommand(2, "OpaqueData", Bytes(3, v))))

\* send_message lines 30-33: take the lock; a poisoned lock is Err(ConnectionFailed)
Acquire(h) ==
    /\ handles[h].pc = "parsed"
    /\ LockAvailable
    /\ \/ /\ poisoned
          /\ handles' = [handles EXCEPT ![h] = Idle]
          /\ last' = Outcome(handles[h].body, "fresh", Failed(State, "ConnectionFailed"), NoPlain)
          /\ UNCHANGED lock
       \/ /\ ~poisoned
          /\ handles' = [handles EXCEPT ![h].pc = "locked"]
          /\ lock' = h
          /\ UNCHANGED last
    /\ UNCHANGED <<objects, sessions, command_audit_options, force_audit, fips, poisoned,
                   rng, kept, trip>>

\* the handler reads the state through the guard
Read(h) ==
    /\ handles[h].pc = "locked"
    /\ handles' = [handles EXCEPT ![h].pc = "read", ![h].snap = State]
    /\ UNCHANGED <<objects, sessions, command_audit_options, force_audit, fips, poisoned, lock,
                   rng, last, kept, trip>>

\* send_message lines 35-40: the handler's result is written through the guard, and
\* the guard is dropped on return or on unwinding
Write(h) ==
    LET body == handles[h].body
        r == Locked_send_message(handles[h].snap, body, rng + 1)
    IN /\ handles[h].pc = "read"
       /\ Install(r)
       /\ last' = Outcome(body, "fresh", r, Observed(handles[h].snap, body, r))
       /\ rng' = IF body.command_type = "CreateSession" /\ r.kind = "Ok" THEN rng + 1 ELSE rng
       /\ lock' = IF lock = h THEN NoHandle ELSE lock
       /\ handles' = [handles EXCEPT ![h] = Idle]
       /\ UNCHANGED <<kept, trip>>

NextConc ==
    \E h \in Handles :
        \/ BeginCreateSession(h)
        \/ BeginAuthSession(h)
        \/ BeginPutOpaque(h)
        \/ Acquire(h)
        \/ Read(h)
        \/ Write(h)

SpecConc == Init /\ [][NextConc]_vars

(***************************************************************************)
(* SpecAuth: two sessions, handshakes that verify and handshakes that do    *)
(* not, and session messages sent before the handshake is complete.        *)
(***************************************************************************)
NextAuth ==
    \/ CreateSession(MaxAuthSessions, MaxAuthChallenges, FALSE)
    \/ AuthSession(FALSE)
    \/ BadAuth
    \/ Premature
    \/ PutOpaque({2}, {1}, MaxAuthCounter, FALSE)
    \/ DeleteObject({2}, {"Opaque"}, MaxAuthCounter, FALSE)

SpecAuth == Init /\ [][NextAuth]_vars

(***************************************************************************)
(* SpecCounter: the command counter of one session, from a new session on   *)
(* and from a session that has run to just below the counter's limit.      *)
(***************************************************************************)
\* A session that has accepted all but its last MaxHighSteps messages
HighSession ==
    [Session_new(0, DEFAULT_AUTHENTICATION_KEY_ID, DefaultAuthKey.payload, HostChallenge, 1)
        EXCEPT !.counter = COUNTER_MAX - MaxHighSteps,
               !.mac_chaining_value = [n |-> COUNTER_MAX - MaxHighSteps],
               !.security_level = "Authenticated"]

InitCounter ==
    /\ objects = Objects_default
    /\ sessions \in {EmptyMap, [i \in {0} |-> HighSession]}
    /\ command_audit_options = EmptyMap
    /\ force_audit = "Off"
    /\ fips = "Off"
    /\ poisoned = FALSE
    /\ lock = NoHandle
    /\ handles = [h \in Handles |-> Idle]
    /\ rng = Cardinality(DOMAIN sessions)
    /\ last = Outcome(NoCommand, "none", Failed(State, "none"), NoPlain)
    /\ kept = NoCommand
    /\ trip = NoTrip

\* Messages a new session may still send; a session near the limit sends until
\* its counter ends it
CounterBudget ==
    IF Accepted(sessions, DOMAIN sessions) >= HighSession.counter - 1 THEN COUNTER_MAX ELSE MaxLowCounter

\* A new session is opened when no session near the limit is open
CreateSessionAfresh ==
    /\ \A sid \in DOMAIN sessions : sessions[sid].counter < HighSession.counter
    /\ CreateSession(MaxSessions, MaxChallenges, TRUE)

NextCounter ==
    \/ CreateSessionAfresh
    \/ AuthSession(TRUE)
    \/ Echo(CounterBudget, TRUE)
    \/ CloseSession(CounterBudget, TRUE)
    \/ Replay
    \/ OffCounter(CounterBudget)

SpecCounter == InitCounter /\ [][NextCounter]_vars

(***************************************************************************)
(* SpecFault: two sessions whose commands fail: objects that are not        *)
(* there, bodies that do not deserialize, inner codes without a handler,   *)
(* altered and replayed messages.                                          *)
(***************************************************************************)
NextFault ==
    \/ CreateSession(MaxFaultSessions, MaxFaultChallenges, TRUE)
    \/ AuthSession(TRUE)
    \/ PutOpaque({2}, {1}, MaxFaultCounter, TRUE)
    \/ DeleteObject({2}, {"Opaque"}, MaxFaultCounter, TRUE)
    \/ GetObjectInfo({2}, {"Opaque"}, MaxFaultCounter, TRUE)
    \/ SignHmac({4}, MaxFaultCounter, FALSE)
    \/ ExportWrapped({3}, {<<2, "Opaque">>}, {9}, MaxFaultCounter, TRUE)
    \/ Malformed(MaxFaultCounter)
    \/ Unsupported(MaxFaultCounter)
    \/ Tamper(MaxFaultCounter)
    \/ Replay

SpecFault == Init /\ [][NextFault]_vars

(***************************************************************************)
(* SpecLock: one session whose requests are well-formed commands that the   *)
(* handlers serve, and well-formed commands with a payload, a length or a  *)
(* key type that the handlers do not expect.                               *)
(***************************************************************************)
NextLock ==
    \/ CreateSession(MaxSessions, MaxSessions, FALSE)
    \/ AuthSession(FALSE)
    \/ PutHmacKey({4}, {"HmacSha256"}, {1}, MaxLockCounter, FALSE)
    \/ PutAsymmetricKey({5}, {"Ed25519", "EcP256"}, {1}, MaxLockCounter, FALSE)
    \/ VerifyHmac({4}, MaxLockCounter, FALSE)
    \/ VerifyHmacShort({4}, MaxLockCounter, FALSE)
    \/ SetForce({"On"}, MaxLockCounter, FALSE)
    \/ SetOptionBadLength(MaxLockCounter, FALSE)
    \/ SignAttestationCertificate({5}, {5}, {7}, MaxLockCounter, FALSE)
    \/ Echo(MaxLockCounter, FALSE)

SpecLock == Init /\ [][NextLock]_vars

(***************************************************************************)
(* SpecClose: two sessions that are opened, used, closed and opened again, *)
(* and a host that goes on sending on a session id after it was closed.    *)
(***************************************************************************)
NextClose ==
    \/ CreateSession(MaxCloseSessions, MaxCloseChallenges, FALSE)
    \/ AuthSession(FALSE)
    \/ PutOpaque({2}, {1}, MaxCloseCounter, FALSE)
    \/ DeleteObject({2}, {"Opaque"}, MaxCloseCounter, FALSE)
    \/ CloseSession(MaxCloseCounter, FALSE)
    \/ Stale(MaxCloseSessions, MaxCloseChallenges)

SpecClose == Init /\ [][NextClose]_vars

(***************************************************************************)
(* SpecList: a store with objects of four types, listed with no filter,    *)
(* with one filter of each tag and with two filters.                       *)
(***************************************************************************)
Filter(tag, value) == [tag |-> tag, value |-> value]

ListFilters ==
    {<<>>,
     <<Filter("Algorithm", "HmacSha256")>>, <<Filter("Algorithm", "Aes128Ccm")>>,
     <<Filter("Capabilities", {"ExportWrapped"})>>, <<Filter("Capabilities", {"SignHmac", "VerifyHmac"})>>,
     <<Filter("Capabilities", {})>>,
     <<Filter("Domains", {1})>>, <<Filter("Domains", {1, 2})>>,
     <<Filter("Label", "mac")>>, <<Filter("Id", 2)>>, <<Filter("Type", "Opaque")>>,
     <<Filter("Id", 2), Filter("Type", "HmacKey")>>,
     <<Filter("Label", "wrap"), Filter("Capabilities", {"ImportWrapped"})>>,
     <<Filter("Type", "Opaque"), Filter("Capabilities", {"SignHmac"})>>}

NextList ==
    \/ CreateSession(MaxSessions, MaxSessions, FALSE)
    \/ AuthSession(FALSE)
    \/ PutOpaque({2}, {1}, MaxListCounter, FALSE)
    \/ PutHmacKey({2}, {"HmacSha256"}, {1}, MaxListCounter, FALSE)
    \/ GenerateWrapKey({3}, {{"ExportWrapped", "ImportWrapped"}}, {5}, MaxListCounter, FALSE)
    \/ ListObjects(ListFilters, MaxListCounter + 1, FALSE)

SpecList == Init /\ [][NextList]_vars

(***************************************************************************)
(* SpecKeys: objects of every type are put, generated, imported, deleted   *)
(* and reset, with algorithms and key sizes that fit the type and with     *)
(* ones that do not.                                                       *)
(***************************************************************************)
NextKeys ==
    \/ CreateSession(MaxSessions, MaxSessions, FALSE)
    \/ AuthSession(FALSE)
    \/ PutOpaque({2}, {1}, MaxKeysCounter, FALSE)
    \/ PutHmacKey({2}, {"HmacSha256"}, {1}, MaxKeysCounter, FALSE)
    \/ PutAsymmetricKey({2}, {"Ed25519", "EcP256"}, {1}, MaxKeysCounter, FALSE)
    \/ GenerateHmacKey({2}, {"HmacSha256"}, {5}, MaxKeysCounter, FALSE)
    \/ GenerateWrapKey({3}, {{"ExportWrapped", "ImportWrapped"}}, {5}, MaxKeysCounter, FALSE)
    \/ PutWrapKey({3}, {5}, MaxKeysCounter, FALSE)
    \/ ImportBlob({3}, {5}, {4}, {3}, MaxKeysCounter, FALSE)
    \/ ImportMistyped({3}, {5}, {4}, MaxKeysCounter, FALSE)
    \/ DeleteObject({2}, {"HmacKey", "AsymmetricKey"}, MaxKeysCounter, FALSE)
    \/ ResetDevice(MaxKeysCounter, FALSE)
    \/ Mismatched(MaxKeysCounter)
    \/ Missized(MaxKeysCounter)

SpecKeys == Init /\ [][NextKeys]_vars

(***************************************************************************)
(* SpecSecret: keys of three types generated on the device and an opaque   *)
(* object put by the host, all under ids the host then reads with every    *)
(* command that answers with bytes.                                        *)
(***************************************************************************)
NextSecret ==
    \/ CreateSession(MaxSessions, MaxSessions, FALSE)
    \/ AuthSession(FALSE)
    \/ GenerateHmacKey({2}, {"HmacSha256"}, {5}, MaxSecretCounter, FALSE)
    \/ GenerateAsymmetricKey({2}, {"Ed25519"}, {6}, MaxSecretCounter, FALSE)
    \/ GenerateWrapKey({3}, {{"ExportWrapped", "ImportWrapped"}}, {7}, MaxSecretCounter, FALSE)
    \/ PutOpaque({2}, {1}, MaxSecretCounter, FALSE)
    \/ GetOpaque({1, 2, 3}, MaxSecretCounter + 1, FALSE)
    \/ GetPublicKey({1, 2, 3}, MaxSecretCounter + 1, FALSE)
    \/ GetObjectInfo({2}, {"HmacKey", "AsymmetricKey"}, MaxSecretCounter + 1, FALSE)
    \/ SignEddsa({2}, MaxSecretCounter + 1, FALSE)

SpecSecret == Init /\ [][NextSecret]_vars

(***************************************************************************)
(* SpecUnwrap: exports and imports that name a wrap key that is missing,   *)
(* of another type or without the export capability, a target that is     *)
(* missing, and blobs made under another key or altered on the way.        *)
(***************************************************************************)
NextUnwrap ==
    \/ CreateSession(MaxSessions, MaxSessions, FALSE)
    \/ AuthSession(FALSE)
    \/ GenerateWrapKey({3}, {{"ExportWrapped", "ImportWrapped"}, {"ImportWrapped"}}, {5}, MaxUnwrapCounter, FALSE)
    \/ PutOpaque({2}, {1}, MaxUnwrapCounter, FALSE)
    \/ ExportWrapped({2, 3}, {<<2, "Opaque">>, <<4, "Opaque">>}, {9}, MaxUnwrapCounter + 1, FALSE)
    \/ ImportBlob({3}, {5, 6}, {4}, {3}, MaxUnwrapCounter + 1, FALSE)
    \/ ImportAltered({3}, {5}, {4}, MaxUnwrapCounter + 1, FALSE)

SpecUnwrap == Init /\ [][NextUnwrap]_vars

(***************************************************************************)
(* SpecCrypto: an RSA key, an Ed25519 key or a P-256 key under one id and  *)
(* an HMAC-SHA1 key under another; signing, decryption and attestation     *)
(* requests with digests, label hashes and key ids that fit and that do    *)
(* not.                                                                    *)
(***************************************************************************)
NextCrypto ==
    \/ CreateSession(MaxSessions, MaxSessions, FALSE)
    \/ AuthSession(FALSE)
    \/ PutAsymmetricKey({5}, {"Rsa2048", "Ed25519", "EcP256"}, {1}, MaxCryptoCounter, FALSE)
    \/ PutHmacKey({4}, {"HmacSha1"}, {1}, MaxCryptoCounter, FALSE)
    \/ SignPkcs1({5, 6}, {20, 31, 32, 0}, MaxCryptoCounter, FALSE)
    \/ SignPss({5, 6}, {"Sha256"}, {32, 20}, {3}, MaxCryptoCounter, FALSE)
    \/ SignEcdsa({5, 6}, {32, 8}, MaxCryptoCounter, FALSE)
    \/ DecryptOaep({5, 6}, {"Sha256"}, {1, 2}, {2, 3}, {0, 1}, {TRUE, FALSE}, MaxCryptoCounter, FALSE)
    \/ SignHmac({4}, MaxCryptoCounter, FALSE)
    \/ VerifyHmac({4}, MaxCryptoCounter, FALSE)
    \/ SignAttestationCertificate({5}, {5, 6}, {7}, MaxCryptoCounter, FALSE)
    \/ Echo(MaxCryptoCounter + 1, FALSE)

SpecCrypto == Init /\ [][NextCrypto]_vars

(***************************************************************************)
(* SpecAudit: the two flags and the per-command map are set and read back, *)
(* with an object put in between; byte 3 is no audit option.               *)
(***************************************************************************)
NextAudit ==
    \/ CreateSession(MaxSessions, MaxSessions, FALSE)
    \/ AuthSession(FALSE)
    \/ SetOption(AuditTags, {"Echo", "DeleteObject"}, {0, 1, 2, 3}, MaxAuditCounter, FALSE)
    \/ GetOption(AuditTags, MaxAuditCounter + 1, FALSE)
    \/ PutOpaque({2}, {1}, MaxAuditCounter, FALSE)

SpecAudit == Init /\ [][NextAudit]_vars

(***************************************************************************)
(* SpecQuery: two sessions; one object is put or generated under id 5 (a   *)
(* key of one of the types, or opaque data), then every command that       *)
(* reads, signs, decrypts, attests or exports is sent to id 5, where it    *)
(* finds the object it needs or does not.                                  *)
(***************************************************************************)
NextQuery ==
    \/ CreateSession(MaxQuerySessions, MaxQueryChallenges, FALSE)
    \/ AuthSession(FALSE)
    \/ PutAsymmetricKey({5}, {"Rsa2048", "Ed25519", "EcP256"}, {1}, MaxQueryCounter - 1, FALSE)
    \/ PutHmacKey({5}, {"HmacSha256"}, {1}, MaxQueryCounter - 1, FALSE)
    \/ GenerateWrapKey({5}, {{"ExportWrapped", "ImportWrapped"}}, {7}, MaxQueryCounter - 1, FALSE)
    \/ PutOpaque({5}, {1}, MaxQueryCounter - 1, FALSE)
    \/ SetForce({"On"}, MaxQueryCounter - 1, FALSE)
    \/ Echo(MaxQueryCounter, FALSE)
    \/ Query({2}, {3}, MaxQueryCounter, FALSE)
    \/ GetObjectInfo({5}, {"Opaque"}, MaxQueryCounter, FALSE)
    \/ GetOpaque({5}, MaxQueryCounter, FALSE)
    \/ GetPublicKey({5}, MaxQueryCounter, FALSE)
    \/ ListObjects({<<Filter("Type", "Opaque")>>}, MaxQueryCounter, FALSE)
    \/ GetOption({"Force", "Command"}, MaxQueryCounter, FALSE)
    \/ SignEcdsa({5}, {32}, MaxQueryCounter, FALSE)
    \/ SignEddsa({5}, MaxQueryCounter, FALSE)
    \/ SignHmac({5}, MaxQueryCounter, FALSE)
    \/ VerifyHmac({5}, MaxQueryCounter, FALSE)
    \/ SignPss({5}, {"Sha256"}, {32}, {3}, MaxQueryCounter, FALSE)
    \/ SignPkcs1({5}, {32}, MaxQueryCounter, FALSE)
    \/ DecryptOaep({5}, {"Sha256"}, {1}, {2}, {0}, {TRUE}, MaxQueryCounter, FALSE)
    \/ SignAttestationCertificate({5, 6}, {5}, {7}, MaxQueryCounter, FALSE)
    \/ ExportWrapped({5}, {<<5, "WrapKey">>}, {9}, MaxQueryCounter, FALSE)

SpecQuery == Init /\ [][NextQuery]_vars

(***************************************************************************)
(* SpecOuter: what reaches send_message from outside a session: sessions   *)
(* created with a stored and with a missing authentication key, closed and *)
(* created again; outer frames of other codes; bytes that do not parse;    *)
(* session messages and AuthSession for session ids that are not open.     *)
(***************************************************************************)
NextOuter ==
    \/ CreateSessionWith({DEFAULT_AUTHENTICATION_KEY_ID, 9}, MaxOuterSessions, MaxOuterChallenges)
    \/ AuthSession(FALSE)
    \/ PutOpaque({2}, {1}, MaxOuterCounter, FALSE)
    \/ SetForce({"On"}, MaxOuterCounter, FALSE)
    \/ CloseSession(MaxOuterCounter, FALSE)
    \/ OuterOther({"Echo", "DeviceInfo", "ResetDevice"})
    \/ Unparsable
    \/ Stale(MaxOuterSessions, MaxOuterChallenges)
    \/ StaleAuth(MaxOuterSessions, MaxOuterChallenges)

SpecOuter == Init /\ [][NextOuter]_vars

(***************************************************************************)
(* Claims                                                                  *)
(***************************************************************************)
AuditUnchanged ==
    /\ command_audit_options' = command_audit_options
    /\ force_audit' = force_audit
    /\ fips' = fips

\* The step is the in-step session message (code, data) on an authenticated session,
\* sent while the lock can be taken
InStep(code, data) ==
    /\ ~poisoned
    /\ \E sid \in DOMAIN sessions :
          /\ sessions[sid].security_level = "Authenticated"
          /\ last'.req = Host_message(sessions[sid], code, data)

\* The response in `last` is the device error `kind`, framed in the clear or under the session
DeviceError(kind) ==
    /\ last.kind = "Ok"
    /\ \/ last.plain = ErrorResponse(kind)
       \/ last.msg.command_type = "Error" /\ last.msg.data = ErrorResponse(kind).data

\* C1: an Echo of any byte string b on an authenticated session is answered with a
\* response that decrypts to exactly b, and leaves the object store, the audit
\* options and the set of open sessions as they were.
C1_EchoReturnsBytes ==
    [][\A b \in EchoData :
          InStep("Echo", [shape |-> "bytes", bytes |-> b]) =>
              /\ last'.kind = "Ok"
              /\ last'.plain = Response("Echo", [shape |-> "bytes", bytes |-> b])
              /\ objects' = objects
              /\ AuditUnchanged
              /\ DOMAIN sessions' = DOMAIN sessions]_vars

C1_Witness ==
    /\ last.how = "fresh"
    /\ last.plain = Response("Echo", [shape |-> "bytes", bytes |-> <<104, 105>>])
    /\ Len(objects) = 2
    /\ force_audit = "On"

\* C2: sending again the identical bytes of a session message that was accepted
\* before is refused, and leaves the object store and the audit options unchanged.
C2_ReplayRejected ==
    [][last'.how = "replay" =>
          /\ last'.kind # "Ok"
          /\ objects' = objects
          /\ AuditUnchanged]_vars

\* a replayed DeleteObject, sent while the object it names is in the store again
C2_Witness ==
    /\ last.how = "replay"
    /\ InnerOf(last.req).code = "DeleteObject"
    /\ Objects_has(objects, 2, "Opaque")

\* C3: a session message with an altered ciphertext or MAC byte is answered with
\* the device error AuthenticationFailed and its session is removed from the table.
C3_TamperAnswered ==
    last.how = "tamper" =>
        /\ DeviceError("AuthenticationFailed")
        /\ last.req.session_id \notin DOMAIN sessions

\* The object ids and types GetObjectInfo is probed with
ProbeIds == {0, 1, 2, 100}

ResetDeviceResponse == Response("ResetDevice", [shape |-> "byte", byte |-> 1])

\* C5: once ResetDevice is accepted the store holds exactly the default
\* AuthenticationKey with id 1, and GetObjectInfo for every other (id, type)
\* answers ObjectNotFound.
C5_ResetLeavesDefaultKey ==
    [][InStep("ResetDevice", [shape |-> "empty"]) =>
          /\ objects' = Objects_default
          /\ Handle(objects'[1]) = <<1, "AuthenticationKey">>
          /\ \A id \in ProbeIds, ty \in ObjectTypes :
                <<id, ty>> # <<1, "AuthenticationKey">> =>
                    get_object_info(State', GetObjectInfoCommand(id, ty)).response
                        = ErrorResponse("ObjectNotFound")]_vars

\* a reset of a store that held another object
C5_Witness ==
    /\ last.plain = ResetDeviceResponse
    /\ Objects_has(last.before, 2, "Opaque")
    /\ objects = Objects_default

\* C6: ResetDevice empties the session table; its response opens under the keys
\* the issuing session had before the reset; afterwards a session message for any
\* id that was open before is refused, and a new CreateSession and AuthSession
\* with authentication key 1 succeed.
C6_ResetDropsSessions ==
    [][InStep("ResetDevice", [shape |-> "empty"]) =>
          /\ sessions' = EmptyMap
          /\ last'.kind = "Ok"
          /\ last'.plain = ResetDeviceResponse
          /\ \A sid \in DOMAIN sessions :
                LET m == Host_message(sessions[sid], "Echo", [shape |-> "bytes", bytes |-> <<104, 105>>])
                    r == send_message(State', poisoned', m, 0)
                IN r.kind = "Err" /\ r.err = "InvalidSession" /\ r.st = State'
          /\ LET c == send_message(State', poisoned',
                                   Host_create_session(DEFAULT_AUTHENTICATION_KEY_ID, HostChallenge), rng + 1)
             IN /\ c.kind = "Ok"
                /\ LET sid == c.msg.session_id
                       a == send_message(c.st, poisoned', Host_authenticate_session(c.st.sessions[sid]), 0)
                   IN a.kind = "Ok" /\ a.st.sessions[sid].security_level = "Authenticated"]_vars

\* a message of a session that a reset dropped, sent again when the table is empty,
\* after a reset that was issued with two sessions open
C6_Witness ==
    /\ last.how = "replay"
    /\ last.err = "InvalidSession"
    /\ sessions = EmptyMap
    /\ kept.session_id = 1
    /\ objects = Objects_default

\* The step is an in-step session message on an authenticated session, sent while
\* the lock can be taken
InStepAny ==
    /\ ~poisoned
    /\ \E sid \in DOMAIN sessions :
          /\ sessions[sid].security_level = "Authenticated"
          /\ last'.req = Host_message(sessions[sid], InnerOf(last'.req).code, InnerOf(last'.req).data)

\* The object type each Put* command writes
PutTypes ==
    [PutAsymmetricKey |-> "AsymmetricKey", PutAuthenticationKey |-> "AuthenticationKey",
     PutHmacKey |-> "HmacKey", PutOpaqueObject |-> "Opaque", PutWrapKey |-> "WrapKey"]

UniqueHandles(objs) ==
    \A i, j \in 1..Len(objs) : Handle(objs[i]) = Handle(objs[j]) => i = j

\* C7: after a successful Put* for (id, type) the pair is found by GetObjectInfo and
\* by ListObjects with filters Id = id and Type = type; whatever was put, generated
\* or imported, the store holds at most one object per (id, type), and a write to a
\* pair that is present replaces its object.
C7_PutThenFound ==
    /\ []UniqueHandles(objects)
    /\ [][LET inner == InnerOf(last'.req)
          IN (/\ InStepAny
              /\ inner.code \in DOMAIN PutTypes
              /\ last'.plain.code = inner.code) =>
                 LET id == inner.data.params.id
                     ty == PutTypes[inner.code]
                     found == get_object_info(State', GetObjectInfoCommand(id, ty)).response
                     listed == list_objects(State', ListObjectsCommand(IdTypeFilters(id, ty))).response
                 IN /\ found.code = "GetObjectInfo"
                    /\ found.data.info.object_id = id
                    /\ found.data.info.object_type = ty
                    /\ found.data.info.algorithm = inner.data.params.algorithm
                    /\ listed.code = "ListObjects"
                    /\ listed.data.entries = <<[object_id |-> id, object_type |-> ty]>>
                    /\ Objects_get(objects', id, ty).payload
                           = Payload_new(inner.data.params.algorithm, inner.data.data)
                    /\ Len(objects') = IF Objects_has(objects, id, ty) THEN Len(objects)
                                       ELSE Len(objects) + 1]_vars

\* a second PutOpaqueObject of (2, Opaque), with other bytes than the ones stored
C7_Witness ==
    /\ last.plain.code = "PutOpaqueObject"
    /\ Objects_has(last.before, 2, "Opaque")
    /\ Objects_get(last.before, 2, "Opaque").payload # Objects_get(objects, 2, "Opaque").payload
    /\ Len(objects) >= 3

\* The handle an accepted put, generate or delete names
WrittenHandle(inner) ==
    CASE inner.code \in DOMAIN PutTypes -> <<inner.data.params.id, PutTypes[inner.code]>>
      [] inner.code = "GenerateAsymmetricKey" -> <<inner.data.key_id, "AsymmetricKey">>
      [] inner.code = "GenerateHmacKey" -> <<inner.data.key_id, "HmacKey">>
      [] inner.code = "GenerateWrapKey" -> <<inner.data.params.key_id, "WrapKey">>
      [] inner.code = "DeleteObject" -> <<inner.data.object_id, inner.data.object_type>>
      [] OTHER -> <<0, "none">>

\* C8: putting, generating or deleting (id, T1) leaves every object (id, T2) with
\* T2 different from T1 present and unchanged, and a successful DeleteObject removes
\* the object of type T1.
C8_TypesIndependent ==
    [][LET inner == InnerOf(last'.req)
           h == WrittenHandle(inner)
       IN (InStepAny /\ h # <<0, "none">>) =>
              /\ \A ty \in ObjectTypes \ {h[2]} :
                    /\ Objects_has(objects', h[1], ty) = Objects_has(objects, h[1], ty)
                    /\ Objects_has(objects, h[1], ty) =>
                           Objects_get(objects', h[1], ty) = Objects_get(objects, h[1], ty)
              /\ (inner.code = "DeleteObject" /\ last'.plain.code = "DeleteObject") =>
                     ~Objects_has(objects', h[1], h[2])]_vars

\* DeleteObject{2, Opaque} accepted while (2, HmacKey) and (2, AsymmetricKey) are stored
C8_Witness ==
    /\ last.plain.code = "DeleteObject"
    /\ InnerOf(last.req).data.object_type = "Opaque"
    /\ Objects_has(last.before, 2, "HmacKey")
    /\ Objects_has(last.before, 2, "AsymmetricKey")
    /\ Objects_has(objects, 2, "HmacKey")
    /\ Objects_has(objects, 2, "AsymmetricKey")

StateBefore == [State EXCEPT !.objects = last.before]

\* C10: VerifyHmac{k, t || d} on a stored HMAC key k answers 1 if SignHmac{k, d}
\* answers t and 0 otherwise, and leaves the store as it was.
C10_VerifyIffSign ==
    LET inner == InnerOf(last.req)
    IN (/\ last.how = "fresh"
        /\ last.kind # "Err"
        /\ inner.code = "VerifyHmac"
        /\ Objects_has(last.before, inner.data.key_id, "HmacKey")) =>
           LET t == SubSeq(inner.data.tag, 1, HMAC_TAG_LEN)
               d == SubSeq(inner.data.tag, HMAC_TAG_LEN + 1, Len(inner.data.tag))
               signed == sign_hmac(StateBefore, SignHmacCommand(inner.data.key_id, d))
           IN /\ last.kind = "Ok"
              /\ ~signed.panic
              /\ last.plain.code = "VerifyHmac"
              /\ last.plain.data.is_ok =
                     (IF signed.response = Response("SignHmac", [shape |-> "tag", tag |-> t]) THEN 1 ELSE 0)
              /\ objects = last.before

\* Handles that are between taking the lock and dropping it
Inside == {h \in Handles : handles[h].pc \in {"locked", "read"}}

\* C4: requests sent through several handles are serialized: at most one request
\* is between its lock and its unlock, the state changes only in the step in which
\* the lock holder writes, and what that step leaves is what send_message run alone
\* on the state just before it leaves.
C4_Serialized ==
    /\ [](Inside \subseteq {lock} /\ Cardinality(Inside) <= 1)
    /\ [][\A h \in Handles :
            (handles[h].pc = "read" /\ handles'[h].pc = "idle") =>
                LET r == send_message(State, poisoned, handles[h].body, rng + 1)
                IN /\ State' = r.st
                   /\ poisoned' = (r.kind = "Panic")
                   /\ last'.kind = r.kind
                   /\ last'.msg = r.msg]_vars
    /\ [][State' # State => \E h \in Handles : handles[h].pc = "read" /\ lock = h /\ lock' = NoHandle]_vars

\* one handle waits for the lock while the other holds it, with a put whose
\* message both handles built for the same counter
C4_Witness ==
    /\ lock = "h2"
    /\ handles["h2"].pc = "read"
    /\ handles["h1"].pc = "parsed"
    /\ InnerOf(handles["h1"].body).code = "PutOpaqueObject"
    /\ InnerOf(handles["h2"].body).code = "PutOpaqueObject"
    /\ handles["h1"].body # handles["h2"].body

\* The session id is in the table and its session is authenticated
Active(ss, sid) == sid \in DOMAIN ss /\ ss[sid].security_level = "Authenticated"

\* C11: a session becomes authenticated only in the step that answers its own
\* verifying AuthSession; a session message for a session that is not authenticated
\* is refused and leaves the store, the audit options and the session table's ids
\* as they were; an AuthSession that does not verify is refused, leaves its session
\* not authenticated and the store unchanged.
C11_ActiveOnlyByAuth ==
    /\ [][\A sid \in DOMAIN sessions' :
            (Active(sessions', sid) /\ ~Active(sessions, sid)) =>
                /\ sid \in DOMAIN sessions
                /\ last'.req = Host_authenticate_session(sessions[sid])
                /\ last'.kind = "Ok"]_vars
    /\ [][(last'.req.command_type = "SessionMessage" /\ ~Active(sessions, last'.req.session_id)) =>
            /\ last'.kind # "Ok"
            /\ objects' = objects
            /\ AuditUnchanged
            /\ DOMAIN sessions' = DOMAIN sessions
            /\ ~Active(sessions', last'.req.session_id)]_vars
    /\ [][last'.how = "badauth" =>
            /\ last'.kind # "Ok"
            /\ objects' = objects
            /\ AuditUnchanged
            /\ ~Active(sessions', last'.req.session_id)]_vars

\* a PutOpaqueObject sent on a created session before its AuthSession, while
\* another session is authenticated and has changed the store
C11_Witness ==
    /\ last.how = "premature"
    /\ last.kind = "Panic"
    /\ InnerOf(last.req).code = "PutOpaqueObject"
    /\ \E sid \in DOMAIN sessions : Active(sessions, sid) /\ sessions[sid].counter = 3
    /\ ~Objects_has(objects, 2, "Opaque")

\* C12: a session's counter is 1 when the session is created and stays between 1
\* and 2^31 - 1; it goes up by exactly one in a step whose session message the
\* session accepts and is unchanged in every other step; a session message is
\* answered only if it was built with the counter value the session had.
C12_CounterByOne ==
    /\ [](\A sid \in DOMAIN sessions :
            sessions[sid].counter >= 1 /\ sessions[sid].counter <= COUNTER_MAX)
    /\ [][\A sid \in DOMAIN sessions' \ DOMAIN sessions : sessions'[sid].counter = 1]_vars
    /\ [][\A sid \in DOMAIN sessions \cap DOMAIN sessions' :
            IF last'.req.session_id = sid /\ MacAccepted(State, poisoned, last'.req)
            THEN /\ sessions[sid].counter < COUNTER_MAX
                 /\ sessions'[sid].counter = sessions[sid].counter + 1
            ELSE sessions'[sid].counter = sessions[sid].counter]_vars
    /\ [][(last'.req.command_type = "SessionMessage" /\ last'.kind = "Ok") =>
            /\ last'.req.session_id \in DOMAIN sessions
            /\ last'.req.data.icv = sessions[last'.req.session_id].counter]_vars

\* the last message a session can accept was answered, its counter stands at the
\* limit, and the host kept a message to send again
C12_Witness ==
    /\ last.kind = "Ok"
    /\ last.req.command_type = "SessionMessage"
    /\ last.req.data.icv = COUNTER_MAX - 1
    /\ \E sid \in DOMAIN sessions : sessions[sid].counter = COUNTER_MAX
    /\ kept # NoCommand

\* The device error a handler owes for a command that names an object, or a wrap
\* key, the store does not hold; "none" for every other command
SemanticError(objs, inner) ==
    CASE inner.code \in {"DeleteObject", "GetObjectInfo"} /\ Deserializes(inner.data, inner.code) ->
             IF Objects_has(objs, inner.data.object_id, inner.data.object_type) THEN "none"
             ELSE "ObjectNotFound"
      [] inner.code = "SignHmac" /\ Deserializes(inner.data, inner.code) ->
             IF Objects_has(objs, inner.data.key_id, "HmacKey") THEN "none" ELSE "ObjectNotFound"
      [] inner.code = "ExportWrapped" /\ Deserializes(inner.data, inner.code) ->
             IF Objects_has(objs, inner.data.wrap_key_id, "WrapKey") THEN "none" ELSE "InvalidCommand"
      [] OTHER -> "none"

EchoHi == [shape |-> "bytes", bytes |-> <<104, 105>>]

\* The next in-step Echo on session sid is answered, in the state the step leaves
NextAccepted(sid) ==
    /\ Active(sessions', sid)
    /\ LET m == Host_message(sessions'[sid], "Echo", EchoHi)
           r == send_message(State', poisoned', m, 0)
       IN /\ r.kind = "Ok"
          /\ Host_open(sessions'[sid], m, r.msg) = Response("Echo", EchoHi)

\* C13: a session command that names an object the store does not hold (DeleteObject,
\* GetObjectInfo, SignHmac: ObjectNotFound; ExportWrapped under a missing wrap key:
\* InvalidCommand) is answered with that device error in a session message that
\* opens under the session's keys; the store is unchanged, the session stays in the
\* table, and its next in-step command is answered.
C13_ErrorKeepsSession ==
    [][LET inner == InnerOf(last'.req)
           sid == last'.req.session_id
       IN (InStepAny /\ SemanticError(objects, inner) # "none") =>
              /\ last'.kind = "Ok"
              /\ last'.msg.command_type = "SessionMessage"
              /\ last'.msg.session_id = sid
              /\ last'.msg.data.key = S_ENC(sessions[sid].keys)
              /\ last'.plain = ErrorResponse(SemanticError(objects, inner))
              /\ objects' = objects
              /\ NextAccepted(sid)]_vars

\* DeleteObject of an object that is not there, as the second command of its session
C13_Witness ==
    /\ last.plain = ErrorResponse("ObjectNotFound")
    /\ InnerOf(last.req).code = "DeleteObject"
    /\ Active(sessions, last.req.session_id)
    /\ sessions[last.req.session_id].counter = 3

\* C14: an inner command of a known code whose body does not deserialize is
\* answered with the device error InvalidCommand, its session stays authenticated in
\* the table, and the store is as it was.
C14_MalformedAnswered ==
    (last.how = "malformed" /\ last.err # "ConnectionFailed") =>
        /\ DeviceError("InvalidCommand")
        /\ Active(sessions, last.req.session_id)
        /\ ~poisoned
        /\ objects = last.before

\* The next in-step Echo on session sid is answered, in the current state
StillServed(sid) ==
    LET m == Host_message(sessions[sid], "Echo", EchoHi)
        r == send_message(State, poisoned, m, 0)
    IN /\ r.kind = "Ok"
       /\ Host_open(sessions[sid], m, r.msg) = Response("Echo", EchoHi)

\* C15: after a session message with an altered MAC or ciphertext, a replayed
\* message, or an inner code without a handler, every other authenticated session
\* is still in the table and its next in-step command is answered.
C15_OthersSurvive ==
    (last.how \in {"tamper", "replay", "unsupported"} /\ last.err # "ConnectionFailed") =>
        \A sid \in last.open \ {last.req.session_id} :
            /\ sid \in DOMAIN sessions
            /\ Active(sessions, sid) => StillServed(sid)

\* C16: every request returns a response or an error, and leaves the state lock
\* such that a later request can take it.
C16_RunsToCompletion ==
    /\ last.kind \in {"Ok", "Err"}
    /\ ~poisoned

\* C17: an accepted CloseSession is answered with a CloseSession response that
\* opens under the session as it was, removes that session and nothing else from
\* the session table, and leaves the store and the audit options alone; a session
\* message naming an id that is not in the table is refused with an error and
\* changes nothing.
C17_CloseTerminates ==
    [][/\ (/\ MacAccepted(State, poisoned, last'.req)
           /\ InnerOf(last'.req).code = "CloseSession")
          => /\ last'.kind = "Ok"
             /\ last'.plain = Response("CloseSession", [shape |-> "empty"])
             /\ DOMAIN sessions' = DOMAIN sessions \ {last'.req.session_id}
             /\ \A o \in DOMAIN sessions' : sessions'[o] = sessions[o]
             /\ objects' = objects
             /\ AuditUnchanged
       /\ (/\ last'.req.command_type = "SessionMessage"
           /\ last'.req.session_id \notin DOMAIN sessions)
          => /\ last'.kind = "Err"
             /\ last'.plain = NoPlain
             /\ sessions' = sessions
             /\ objects' = objects
             /\ AuditUnchanged]_vars

\* A PutOpaqueObject, built with the keys of the session that was closed, was
\* refused while the other session is still open and the store has no object 2
C17_Witness ==
    /\ last.how = "stale"
    /\ last.kind = "Err"
    /\ last.req = Host_message(Host_session(0, 1, 2), "PutOpaqueObject",
                               PutOpaqueCommand(2, "OpaqueData", Bytes(3, 1)))
    /\ DOMAIN sessions = {1}
    /\ sessions[1].security_level = "Authenticated"
    /\ sessions[1].card_challenge = 2
    /\ ~Objects_has(objects, 2, "Opaque")

\* What a filter asks of an object's info: the field its tag names
Asked(info, tag) ==
    [Algorithm |-> info.algorithm, Label |-> info.label, Id |-> info.object_id,
     Type |-> info.object_type, Capabilities |-> info.capabilities, Domains |-> info.domains][tag]

\* The entries the stored objects that pass every filter have
Listed(objs, filters) ==
    {Entry(objs[i]) : i \in {j \in 1..Len(objs) :
        \A k \in 1..Len(filters) :
            IF filters[k].tag \in {"Capabilities", "Domains"}
            THEN filters[k].value \subseteq Asked(objs[j].object_info, filters[k].tag)
            ELSE filters[k].value = Asked(objs[j].object_info, filters[k].tag)}}

\* C18: an accepted ListObjects answers with one entry (id, type) for each stored
\* object that passes every filter (all of them when there is no filter) and no
\* other entry, and leaves the store as it was.
C18_ListExact ==
    [][(/\ MacAccepted(State, poisoned, last'.req)
        /\ InnerOf(last'.req).code = "ListObjects")
       => /\ last'.kind = "Ok"
          /\ last'.plain.code = "ListObjects"
          /\ {last'.plain.data.entries[i] : i \in 1..Len(last'.plain.data.entries)}
                 = Listed(objects, InnerOf(last'.req).data.filters)
          /\ Len(last'.plain.data.entries) = Cardinality(Listed(objects, InnerOf(last'.req).data.filters))
          /\ InnerOf(last'.req).data.filters = <<>> => Len(last'.plain.data.entries) = Len(objects)
          /\ objects' = objects]_vars

\* With the default key, an opaque object, an HMAC key and a wrap key stored, the
\* filter Capabilities {ExportWrapped} listed the default key and the wrap key
C18_Witness ==
    /\ last.kind = "Ok"
    /\ InnerOf(last.req).code = "ListObjects"
    /\ InnerOf(last.req).data.filters = <<Filter("Capabilities", {"ExportWrapped"})>>
    /\ Len(objects) = 4
    /\ {last.plain.data.entries[i] : i \in 1..Len(last.plain.data.entries)}
           = {[object_id |-> 1, object_type |-> "AuthenticationKey"],
              [object_id |-> 3, object_type |-> "WrapKey"]}

\* C19: a Generate* or Put* whose algorithm does not fit the object type is
\* answered with the device error InvalidCommand, a Put* whose key material has the
\* wrong size with some device error, and the store is as it was before.
C19_MismatchRefused ==
    /\ (last.how = "mismatched" /\ last.err # "ConnectionFailed")
          => DeviceError("InvalidCommand") /\ objects = last.before
    /\ (last.how = "missized" /\ last.err # "ConnectionFailed")
          => last.kind = "Ok" /\ last.plain.code = "Error" /\ objects = last.before

\* The algorithms of an object type and the payload variant of an algorithm
Consistent(obj) ==
    LET info == obj.object_info
    IN /\ info.object_type = "AsymmetricKey" => info.algorithm \in AsymmetricAlgs
       /\ info.object_type = "HmacKey" => info.algorithm \in HmacAlgs
       /\ info.object_type = "WrapKey" => info.algorithm \in WrapAlgs
       /\ info.object_type = "AuthenticationKey" => info.algorithm \in AuthAlgs
       /\ info.object_type = "Opaque" => info.algorithm \in OpaqueAlgs
       /\ obj.payload.alg = info.algorithm
       /\ obj.payload.variant = VariantOf(info.algorithm)

\* C20: every stored object has an algorithm of its object type and a payload of
\* the variant of that algorithm.
C20_TypesConsistent == \A i \in 1..Len(objects) : Consistent(objects[i])

\* The byte strings a response hands to the host in the clear
ClearBytes(plain) ==
    CASE plain.code \in {"GetOpaqueObject", "GetPublicKey"} -> {plain.data.bytes}
      [] plain.code = "SignEddsa" -> {plain.data.signature.by}
      [] OTHER -> {}

\* C21: a response holds the payload bytes of a stored object only when it answers
\* GetOpaqueObject{id} and the object is (id, Opaque); GetOpaqueObject for an id with
\* no Opaque object answers ObjectNotFound, whatever else is stored under the id;
\* GetPublicKey for an id with no AsymmetricKey answers ObjectNotFound, and else
\* answers with the public key derived from the payload.
C21_SecretsStayInside ==
    [][MacAccepted(State, poisoned, last'.req)
       => /\ last'.kind = "Ok"
          /\ \A i \in 1..Len(objects) :
                Payload_to_bytes(objects[i].payload) \in ClearBytes(last'.plain)
                => /\ InnerOf(last'.req).code = "GetOpaqueObject"
                   /\ Handle(objects[i]) = <<InnerOf(last'.req).data.object_id, "Opaque">>
          /\ InnerOf(last'.req).code = "GetOpaqueObject"
                => IF Objects_has(objects, InnerOf(last'.req).data.object_id, "Opaque")
                   THEN last'.plain.code = "GetOpaqueObject"
                   ELSE last'.plain = ErrorResponse("ObjectNotFound")
          /\ InnerOf(last'.req).code = "GetPublicKey"
                => IF Objects_has(objects, InnerOf(last'.req).data.key_id, "AsymmetricKey")
                   THEN LET payload == Objects_get(objects, InnerOf(last'.req).data.key_id,
                                                   "AsymmetricKey").payload
                        IN /\ last'.plain.code = "GetPublicKey"
                           /\ last'.plain.data.bytes = Payload_public_key_bytes(payload)
                           /\ last'.plain.data.bytes # Payload_to_bytes(payload)
                   ELSE last'.plain = ErrorResponse("ObjectNotFound")]_vars

\* GetOpaqueObject{2} was answered with ObjectNotFound while id 2 holds a generated
\* HMAC key and a generated Ed25519 key and no opaque object
C21_Witness ==
    /\ InnerOf(last.req).code = "GetOpaqueObject"
    /\ InnerOf(last.req).data.object_id = 2
    /\ last.plain = ErrorResponse("ObjectNotFound")
    /\ Objects_has(objects, 2, "HmacKey")
    /\ Objects_has(objects, 2, "AsymmetricKey")
    /\ Objects_get(objects, 2, "HmacKey").object_info.origin = "Generated"
    /\ ~Objects_has(objects, 2, "Opaque")

\* C22: a replayed message naming an open session is refused with an error, and
\* the next command the host sends on that session id is refused with
\* InvalidSession.
C22_ReplayTerminates ==
    /\ []((last.how = "replay" /\ last.req.session_id \in last.open) => last.kind = "Err")
    /\ [][(/\ last.how = "replay"
            /\ last.req.session_id \in last.open
            /\ last'.req.command_type = "SessionMessage"
            /\ last'.req.session_id = last.req.session_id)
           => (last'.kind = "Err" /\ last'.err = "InvalidSession")]_vars

\* C23: after an ImportWrapped that succeeds, the store holds the object the blob
\* names with origin Wrapped and the other info fields of the blob's header, and the
\* response holds that object's type and id.
C23_ImportedIsWrapped ==
    [][(/\ MacAccepted(State, poisoned, last'.req)
        /\ InnerOf(last'.req).code = "ImportWrapped"
        /\ last'.plain.code = "ImportWrapped")
       => LET header == InnerOf(last'.req).data.ciphertext.plaintext.info
          IN /\ last'.plain.data.object_type = header.object_type
             /\ last'.plain.data.object_id = header.object_id
             /\ Objects_has(objects', header.object_id, header.object_type)
             /\ Objects_get(objects', header.object_id, header.object_type).object_info
                    = [header EXCEPT !.origin = "Wrapped"]]_vars

\* The wrap key, generated on the device, was exported under itself and imported
\* again: it is stored with origin Wrapped, and so is the opaque object the host put
C23_Witness ==
    /\ InnerOf(last.req).code = "ImportWrapped"
    /\ last.plain.code = "ImportWrapped"
    /\ InnerOf(last.req).data.ciphertext.plaintext.info.origin = "Generated"
    /\ last.plain.data.object_type = "WrapKey"
    /\ Objects_has(objects, 3, "WrapKey")
    /\ Objects_get(objects, 3, "WrapKey").object_info.origin = "Wrapped"

\* C24: an in-step session message with an inner code the device does not support,
\* sent while the device can still be reached, is refused with an error, its
\* session is no longer in the session table, and the store is as it was.
C24_UnsupportedTerminates ==
    (last.how = "unsupported" /\ last.err # "ConnectionFailed")
       => /\ last.kind = "Err"
          /\ last.req.session_id \notin DOMAIN sessions
          /\ objects = last.before

\* C25: an accepted ExportWrapped naming a wrap key id that has no WrapKey object,
\* a wrap key without the ExportWrapped capability, or a target (id, type) that is
\* not stored, and an accepted ImportWrapped naming a wrap key id that has no
\* WrapKey object or carrying a ciphertext that does not open under the wrap key,
\* are answered with a device error and leave the store as it was.
C25_WrapFailures ==
    [][/\ (/\ MacAccepted(State, poisoned, last'.req)
           /\ InnerOf(last'.req).code = "ExportWrapped"
           /\ LET c == InnerOf(last'.req).data
              IN \/ ~Objects_has(objects, c.wrap_key_id, "WrapKey")
                 \/ "ExportWrapped" \notin
                        Objects_get(objects, c.wrap_key_id, "WrapKey").object_info.capabilities
                 \/ ~Objects_has(objects, c.object_id, c.object_type))
          => /\ last'.kind = "Ok"
             /\ last'.plain.code = "Error"
             /\ objects' = objects
       /\ (/\ MacAccepted(State, poisoned, last'.req)
           /\ InnerOf(last'.req).code = "ImportWrapped"
           /\ LET c == InnerOf(last'.req).data
              IN \/ ~Objects_has(objects, c.wrap_key_id, "WrapKey")
                 \/ ~c.ciphertext.intact
                 \/ c.ciphertext.key # Objects_get(objects, c.wrap_key_id, "WrapKey").payload.bytes
                 \/ c.ciphertext.nonce # c.nonce)
          => /\ last'.kind = "Ok"
             /\ last'.plain.code = "Error"
             /\ objects' = objects]_vars

\* ExportWrapped{wrap key id 2} was answered with a device error while id 2 holds
\* an opaque object, the target, and no wrap key, and a wrap key is stored as id 3
C25_Witness ==
    /\ InnerOf(last.req).code = "ExportWrapped"
    /\ InnerOf(last.req).data.wrap_key_id = 2
    /\ InnerOf(last.req).data.object_id = 2
    /\ last.plain = ErrorResponse("InvalidCommand")
    /\ Objects_has(objects, 2, "Opaque")
    /\ Objects_has(objects, 3, "WrapKey")
    /\ objects = last.before

\* The store without the object (id, ty), the others as they were and in their order
Without(objs, id, ty) ==
    LET Other(o) == ~(o.object_info.object_id = id /\ o.object_info.object_type = ty)
    IN SelectSeq(objs, Other)

\* C26: an accepted DeleteObject{id, type} for a stored (id, type) answers with
\* success and leaves the store without that object and otherwise as it was; for an
\* (id, type) that is not stored it answers ObjectNotFound and leaves the store as
\* it was; GetObjectInfo{id, type} for an (id, type) that is not stored answers
\* ObjectNotFound.
C26_DeleteRemovesOne ==
    [][/\ (/\ MacAccepted(State, poisoned, last'.req)
           /\ InnerOf(last'.req).code = "DeleteObject")
          => LET c == InnerOf(last'.req).data
             IN IF \E i \in 1..Len(objects) : Handle(objects[i]) = <<c.object_id, c.object_type>>
                THEN /\ last'.plain = Response("DeleteObject", [shape |-> "empty"])
                     /\ objects' = Without(objects, c.object_id, c.object_type)
                     /\ Len(objects') = Len(objects) - 1
                     /\ \A i \in 1..Len(objects') : Handle(objects'[i]) # <<c.object_id, c.object_type>>
                ELSE /\ last'.plain = ErrorResponse("ObjectNotFound")
                     /\ objects' = objects
       /\ (/\ MacAccepted(State, poisoned, last'.req)
           /\ InnerOf(last'.req).code = "GetObjectInfo"
           /\ \A i \in 1..Len(objects) :
                 Handle(objects[i]) # <<InnerOf(last'.req).data.object_id, InnerOf(last'.req).data.object_type>>)
          => /\ last'.plain = ErrorResponse("ObjectNotFound")
             /\ objects' = objects]_vars

\* DeleteObject{2, Opaque} was answered with success: the store lost one object,
\* has no (2, Opaque) and still has the HMAC key with the same id
C26_Witness ==
    /\ InnerOf(last.req).code = "DeleteObject"
    /\ InnerOf(last.req).data.object_type = "Opaque"
    /\ last.plain = Response("DeleteObject", [shape |-> "empty"])
    /\ Len(last.before) = Len(objects) + 1
    /\ Objects_has(last.before, 2, "Opaque")
    /\ ~Objects_has(objects, 2, "Opaque")
    /\ Objects_has(objects, 2, "HmacKey")

\* Where the object with a handle is in the store, 0 when it is not there
Place(objs, h) == IF \E i \in 1..Len(objs) : Handle(objs[i]) = h
                  THEN CHOOSE i \in 1..Len(objs) : Handle(objs[i]) = h
                  ELSE 0

\* C27: the store keeps its objects in the order in which their (id, type) came
\* in (an (id, type) that is new is behind all that stay, and those that stay keep
\* their order), and ListObjects lists its entries in that order.
C27_InsertionOrder ==
    [][/\ \A i, j \in 1..Len(objects') :
            LET hi == Handle(objects'[i])
                hj == Handle(objects'[j])
            IN /\ (Place(objects, hi) # 0 /\ Place(objects, hj) # 0)
                     => (i < j <=> Place(objects, hi) < Place(objects, hj))
               /\ (Place(objects, hi) # 0 /\ Place(objects, hj) = 0) => i < j
       /\ (/\ MacAccepted(State, poisoned, last'.req)
           /\ InnerOf(last'.req).code = "ListObjects"
           /\ last'.plain.code = "ListObjects")
          => LET entries == last'.plain.data.entries
             IN \A i, j \in 1..Len(entries) :
                   i < j => Place(objects, <<entries[i].object_id, entries[i].object_type>>)
                              < Place(objects, <<entries[j].object_id, entries[j].object_type>>)]_vars

\* With the wrap key 3 generated before the HMAC key 2 and the opaque object 2
\* were put, the unfiltered listing is default key, wrap key, HMAC key, opaque object
C27_Witness ==
    /\ InnerOf(last.req).code = "ListObjects"
    /\ InnerOf(last.req).data.filters = <<>>
    /\ last.plain.code = "ListObjects"
    /\ last.plain.data.entries =
          <<[object_id |-> 1, object_type |-> "AuthenticationKey"],
            [object_id |-> 3, object_type |-> "WrapKey"],
            [object_id |-> 2, object_type |-> "HmacKey"],
            [object_id |-> 2, object_type |-> "Opaque"]>>

\* The object type a Generate* command makes
GenerateTypes ==
    [GenerateAsymmetricKey |-> "AsymmetricKey", GenerateHmacKey |-> "HmacKey", GenerateWrapKey |-> "WrapKey"]

\* C28: a Generate*Key that is answered with success is answered with the id it
\* asked for, and the store then holds (id, type) with origin Generated, the
\* algorithm, label, domains and capabilities of the request, and as delegated
\* capabilities none (asymmetric and HMAC keys) or the requested ones (wrap keys).
C28_GeneratedAsAsked ==
    [][(/\ MacAccepted(State, poisoned, last'.req)
        /\ InnerOf(last'.req).code \in DOMAIN GenerateTypes
        /\ last'.plain.code = InnerOf(last'.req).code)
       => LET code == InnerOf(last'.req).code
              c == InnerOf(last'.req).data
              p == IF code = "GenerateWrapKey" THEN c.params ELSE c
              ty == GenerateTypes[code]
          IN /\ last'.plain.data.key_id = p.key_id
             /\ \E i \in 1..Len(objects') :
                   /\ objects'[i].object_info =
                         [object_id |-> p.key_id, object_type |-> ty, algorithm |-> p.algorithm,
                          label |-> p.label, capabilities |-> p.capabilities,
                          delegated_capabilities |->
                              IF code = "GenerateWrapKey" THEN c.delegated_capabilities ELSE {},
                          domains |-> p.domains, origin |-> "Generated"]
                   /\ \A j \in 1..Len(objects') :
                         Handle(objects'[j]) = <<p.key_id, ty>> => j = i]_vars

\* GenerateWrapKey{3} was answered with key id 3 and the wrap key is stored with
\* the delegated capabilities of the request, next to a generated HMAC key
C28_Witness ==
    /\ InnerOf(last.req).code = "GenerateWrapKey"
    /\ last.plain = Response("GenerateWrapKey", [shape |-> "key_id", key_id |-> 3])
    /\ Objects_has(objects, 3, "WrapKey")
    /\ Objects_get(objects, 3, "WrapKey").object_info.delegated_capabilities
          = InnerOf(last.req).data.delegated_capabilities
    /\ InnerOf(last.req).data.delegated_capabilities # {}
    /\ Objects_get(objects, 3, "WrapKey").object_info.origin = "Generated"
    /\ Objects_has(objects, 2, "HmacKey")
    /\ Objects_get(objects, 2, "HmacKey").object_info.delegated_capabilities = {}

\* The request was answered with a device error of the kind; the store is as it
\* was, and the session is open, authenticated and one message further
AnsweredWith(kind) ==
    LET sid == last'.req.session_id
    IN /\ last'.kind = "Ok"
       /\ last'.plain = ErrorResponse(kind)
       /\ objects' = objects
       /\ sid \in DOMAIN sessions'
       /\ sessions'[sid].security_level = "Authenticated"
       /\ sessions'[sid].counter = sessions[sid].counter + 1
       /\ ~poisoned'

\* The stored asymmetric key a request names is an RSA key
NamesRsaKey(objs, key_id) ==
    \E i \in 1..Len(objs) :
        /\ Handle(objs[i]) = <<key_id, "AsymmetricKey">>
        /\ objs[i].payload.variant = "RsaKey"

NamesAsymmetricKey(objs, key_id) ==
    \E i \in 1..Len(objs) : Handle(objs[i]) = <<key_id, "AsymmetricKey">>

\* C29: SignPkcs1, SignPss and DecryptOaep answer ObjectNotFound when no asymmetric
\* key has the id and InvalidCommand when the asymmetric key is not an RSA key;
\* SignPkcs1 on an RSA key answers InvalidCommand for a digest that is not 20, 32,
\* 48 or 64 bytes long; DecryptOaep on an RSA key of a ciphertext that does not
\* open answers InvalidData; each time the store is unchanged and the session open.
C29_RsaErrors ==
    [][(/\ MacAccepted(State, poisoned, last'.req)
        /\ InnerOf(last'.req).code \in {"SignPkcs1", "SignPss", "DecryptOaep"})
       => LET code == InnerOf(last'.req).code
              c == InnerOf(last'.req).data
          IN /\ ~NamesAsymmetricKey(objects, c.key_id) => AnsweredWith("ObjectNotFound")
             /\ (NamesAsymmetricKey(objects, c.key_id) /\ ~NamesRsaKey(objects, c.key_id))
                   => AnsweredWith("InvalidCommand")
             /\ (/\ code = "SignPkcs1"
                 /\ NamesRsaKey(objects, c.key_id)
                 /\ c.digest.len \notin {20, 32, 48, 64})
                   => AnsweredWith("InvalidCommand")
             /\ (/\ code = "DecryptOaep"
                 /\ NamesRsaKey(objects, c.key_id)
                 /\ c.label_hash.len = DigestLen(c.mgf1_hash_alg)
                 /\ \/ ~c.data.intact
                    \/ c.data.label_hash # c.label_hash
                    \/ c.data.to # Payload_public_key_bytes(
                                       Objects_get(objects, c.key_id, "AsymmetricKey").payload))
                   => AnsweredWith("InvalidData")]_vars

\* SignPkcs1 with a 31-byte digest on the stored RSA key was answered with
\* InvalidCommand, and the session is authenticated and has accepted two messages
C29_Witness ==
    /\ InnerOf(last.req).code = "SignPkcs1"
    /\ InnerOf(last.req).data.digest.len = 31
    /\ last.plain = ErrorResponse("InvalidCommand")
    /\ NamesRsaKey(objects, InnerOf(last.req).data.key_id)
    /\ objects = last.before
    /\ last.req.session_id \in DOMAIN sessions
    /\ sessions[last.req.session_id].security_level = "Authenticated"
    /\ sessions[last.req.session_id].counter = 3
    /\ ~poisoned

\* The requests whose handler the source ends with a panic rather than an answer:
\* an attestation by a key that is not stored, an HMAC made or checked with a key
\* that is not HMAC-SHA256, a PSS digest that is not one hash long, an ECDSA
\* digest too short for the curve, an OAEP label hash that is not one hash long
SemanticFailure(objs, inner) ==
    LET c == inner.data
    IN \/ /\ inner.code = "SignAttestationCertificate"
          /\ NamesAsymmetricKey(objs, c.key_id)
          /\ ~NamesAsymmetricKey(objs, c.attestation_key_id)
       \/ /\ inner.code \in {"SignHmac", "VerifyHmac"}
          /\ \E i \in 1..Len(objs) :
                 /\ Handle(objs[i]) = <<c.key_id, "HmacKey">>
                 /\ objs[i].payload.alg # "HmacSha256"
       \/ /\ inner.code = "SignPss"
          /\ NamesRsaKey(objs, c.key_id)
          /\ c.digest.len # DigestLen(c.mgf1_hash_alg)
       \/ /\ inner.code = "SignEcdsa"
          /\ \E i \in 1..Len(objs) :
                 /\ Handle(objs[i]) = <<c.key_id, "AsymmetricKey">>
                 /\ objs[i].payload.variant \in EcdsaVariants
                 /\ 2 * c.digest.len < FieldLen(objs[i].payload.variant)
       \/ /\ inner.code = "DecryptOaep"
          /\ NamesRsaKey(objs, c.key_id)
          /\ c.label_hash.len # DigestLen(c.mgf1_hash_alg)

\* C30: a request that fails for its meaning (an attestation key that is not
\* stored, an HMAC key that is not SHA-256, a digest or label hash of the wrong
\* length for SignPss, SignEcdsa or DecryptOaep) is answered with a device error
\* response, ObjectNotFound for the missing attestation key, and is not aborted.
C30_SemanticFailuresAnswered ==
    [][(/\ MacAccepted(State, poisoned, last'.req)
        /\ SemanticFailure(objects, InnerOf(last'.req)))
       => /\ last'.kind = "Ok"
          /\ last'.plain.code = "Error"
          /\ InnerOf(last'.req).code = "SignAttestationCertificate"
                => last'.plain = ErrorResponse("ObjectNotFound")
          /\ ~poisoned']_vars

\* What GetOption would now answer for a tag
OptionRead(st, tag) == get_option(st, GetOptionCommand(tag)).response.data.value

\* C31: SetOption of Force or Fips with an option byte v makes GetOption of that tag
\* answer the single byte v and leaves the other flag and the per-command map as
\* they were; SetOption of Command with (code, option) sets that command's entry
\* and leaves every other entry and both flags as they were; GetOption of Command
\* answers the whole map; no audit command changes the object store.
C31_AuditOptions ==
    [][(/\ MacAccepted(State, poisoned, last'.req)
        /\ InnerOf(last'.req).code \in {"SetOption", "GetOption"})
       => LET code == InnerOf(last'.req).code
              c == InnerOf(last'.req).data
          IN /\ objects' = objects
             /\ (code = "SetOption" /\ c.tag = "Force" /\ c.value[1] \in {0, 1, 2})
                   => /\ last'.plain = Response("SetOption", [shape |-> "empty"])
                      /\ OptionRead(State', "Force") = <<c.value[1]>>
                      /\ fips' = fips
                      /\ command_audit_options' = command_audit_options
             /\ (code = "SetOption" /\ c.tag = "Fips" /\ c.value[1] \in {0, 1, 2})
                   => /\ last'.plain = Response("SetOption", [shape |-> "empty"])
                      /\ OptionRead(State', "Fips") = <<c.value[1]>>
                      /\ force_audit' = force_audit
                      /\ command_audit_options' = command_audit_options
             /\ (code = "SetOption" /\ c.tag = "Command" /\ c.value[2] \in {0, 1, 2})
                   => /\ last'.plain = Response("SetOption", [shape |-> "empty"])
                      /\ DOMAIN command_audit_options' = DOMAIN command_audit_options \cup {c.value[1]}
                      /\ OptionRead(State', "Command")[c.value[1]] = c.value[2]
                      /\ \A other \in DOMAIN command_audit_options \ {c.value[1]} :
                             command_audit_options'[other] = command_audit_options[other]
                      /\ force_audit' = force_audit
                      /\ fips' = fips
             /\ code = "GetOption"
                   => /\ last'.plain = Response("GetOption",
                                           [shape |-> "option", value |-> OptionRead(State, c.tag)])
                      /\ c.tag = "Command" =>
                             /\ DOMAIN last'.plain.data.value = DOMAIN command_audit_options
                             /\ \A k \in DOMAIN command_audit_options :
                                    AuditOption_from_u8(last'.plain.data.value[k])
                                        = command_audit_options[k]
                      /\ force_audit' = force_audit
                      /\ fips' = fips
                      /\ command_audit_options' = command_audit_options]_vars

\* GetOption of Command answered with the two entries that were set one after the
\* other, the second of them not having touched the first
C31_Witness ==
    /\ InnerOf(last.req).code = "GetOption"
    /\ InnerOf(last.req).data.tag = "Command"
    /\ last.kind = "Ok"
    /\ DOMAIN last.plain.data.value = {"Echo", "DeleteObject"}
    /\ last.plain.data.value["Echo"] = 2
    /\ last.plain.data.value["DeleteObject"] = 1

\* The commands that read, sign, decrypt, attest or export
QueryCodes ==
    {"Echo", "DeviceInfo", "GetStorageInfo", "BlinkDevice", "GetLogEntries", "SetLogIndex",
     "GetPseudoRandom", "GetObjectInfo", "GetOpaqueObject", "GetPublicKey", "ListObjects",
     "GetOption", "SignEcdsa", "SignEddsa", "SignHmac", "VerifyHmac", "SignPss", "SignPkcs1",
     "DecryptOaep", "SignAttestationCertificate", "ExportWrapped"}

\* C32: an accepted query or crypto command leaves the object store, the audit
\* options and the set of open sessions as they were, whether it is answered with
\* success or with a device error; of the sessions only the issuing one changes,
\* and of it only the counter, by one, and the MAC chain.
C32_QueriesChangeNothing ==
    [][(/\ MacAccepted(State, poisoned, last'.req)
        /\ InnerOf(last'.req).code \in QueryCodes
        /\ last'.kind = "Ok")
       => LET sid == last'.req.session_id
          IN /\ last'.plain.code \in {InnerOf(last'.req).code, "Error"}
             /\ objects' = objects
             /\ command_audit_options' = command_audit_options
             /\ force_audit' = force_audit
             /\ fips' = fips
             /\ DOMAIN sessions' = DOMAIN sessions
             /\ \A other \in DOMAIN sessions \ {sid} : sessions'[other] = sessions[other]
             /\ sessions'[sid].counter = sessions[sid].counter + 1
             /\ sessions'[sid].mac_chaining_value # sessions[sid].mac_chaining_value
             /\ sessions'[sid] = [sessions[sid] EXCEPT
                                     !.counter = sessions'[sid].counter,
                                     !.mac_chaining_value = sessions'[sid].mac_chaining_value]]_vars

\* an export answered with the wrapped object, from a store of two objects with
\* force audit on, while a second session is open
C32_Witness ==
    /\ InnerOf(last.req).code = "ExportWrapped"
    /\ last.plain.code = "ExportWrapped"
    /\ Len(objects) = 2
    /\ objects = last.before
    /\ Cardinality(DOMAIN sessions) = 2
    /\ DOMAIN sessions = last.open

\* C33: CreateSession naming an authentication key that is not stored creates no
\* session and returns an error to its caller; CreateSession naming a stored one
\* returns, with card challenge and card cryptogram, a session id that no session
\* in the table had, and the table then holds that session besides the others.
C33_CreateSession ==
    [][(last'.req.command_type = "CreateSession" /\ ~poisoned)
       => LET key_id == last'.req.data.authentication_key_id
          IN IF Objects_has(objects, key_id, "AuthenticationKey")
             THEN /\ last'.kind = "Ok"
                  /\ last'.msg.session_id \notin DOMAIN sessions
                  /\ DOMAIN sessions' = DOMAIN sessions \cup {last'.msg.session_id}
                  /\ \A sid \in DOMAIN sessions : sessions'[sid] = sessions[sid]
                  /\ last'.msg.data.card_challenge = sessions'[last'.msg.session_id].card_challenge
                  /\ last'.msg.data.card_cryptogram
                        = Session_card_cryptogram(sessions'[last'.msg.session_id])
             ELSE /\ last'.kind = "Err"
                  /\ sessions' = sessions]_vars

\* The same for the stored authentication keys alone
CreateSessionAllocates ==
    [][(/\ last'.req.command_type = "CreateSession" /\ ~poisoned
        /\ Objects_has(objects, last'.req.data.authentication_key_id, "AuthenticationKey"))
       => /\ last'.kind = "Ok"
          /\ last'.msg.session_id \notin DOMAIN sessions
          /\ DOMAIN sessions' = DOMAIN sessions \cup {last'.msg.session_id}
          /\ \A sid \in DOMAIN sessions : sessions'[sid] = sessions[sid]]_vars

\* The whole state under the Mutex is as it was
StateUnchanged ==
    /\ objects' = objects
    /\ sessions' = sessions
    /\ command_audit_options' = command_audit_options
    /\ force_audit' = force_audit
    /\ fips' = fips

\* C34: an outer command whose code is none of CreateSession, AuthSession and
\* SessionMessage, and a request that does not parse as an outer frame, return
\* the error ConnectionFailed and change nothing of the store, the audit options
\* and the session table; a SessionMessage or AuthSession naming a session id that
\* is not in the table returns an error and changes nothing.
C34_OuterRefused ==
    [][/\ (last'.req.command_type \notin {"CreateSession", "AuthSession", "SessionMessage"})
          => /\ last'.kind = "Err"
             /\ last'.err = "ConnectionFailed"
             /\ StateUnchanged
       /\ (/\ last'.req.command_type \in {"AuthSession", "SessionMessage"}
           /\ last'.req.session_id \notin DOMAIN sessions)
          => /\ last'.kind = "Err"
             /\ StateUnchanged]_vars

\* a session message for session id 0, closed while session 1 stays open over a
\* store of two objects with force audit on, was refused as InvalidSession
C34_Witness ==
    /\ last.how = "stale"
    /\ last.req.command_type = "SessionMessage"
    /\ last.req.session_id = 0
    /\ last.err = "InvalidSession"
    /\ DOMAIN sessions = {1}
    /\ Len(objects) = 2
    /\ force_audit = "On"
    /\ ~poisoned

====
